---- MODULE Spec2Model ----
(***************************************************************************)
(* A model of eodms_api_client.eodms.EodmsAPI: the constructor and the     *)
(* collection property, the search pager (query / _submit_search), the     *)
(* metadata enricher (_fetch_metadata), the order submitter (order) and    *)
(* the download orchestrator (download / _download_items) and the DDS      *)
(* channel (download_dds / _download_dds_item, auth.acquire_token).  The    *)
(* EODMS server is the environment: every response it may give is drawn    *)
(* from a small set by the action that issues the request.                 *)
(***************************************************************************)
EXTENDS Integers, Sequences, FiniteSets, TLC

VARIABLES
    pc,              \* position of the calling thread
    search_url,      \* self._search_url, a sequence of [k, v] query parameters
    searchLog,       \* history: the search GETs issued, with what came back
    search_response, \* the value _submit_search returned to query
    meta_urls,       \* _fetch_metadata: the detail URLs, in hit order
    futures,         \* the pool's tasks, one per detail URL
    results,         \* the records list() has taken from executor.map so far
    outOfOrder,      \* history: a task completed before one submitted earlier
    normalizerInput, \* what _fetch_metadata passed to metadata_to_gdf
    collection,      \* self.collection
    record_ids,      \* order: the record ids passed in
    priority,        \* order: the priority passed in, a sequence of characters
    idx,             \* order: the index of the next chunk
    order_ids,       \* order: the order ids accumulated so far
    posts,           \* history: the POSTs issued, each with its body's items
    order_result,    \* what order returned or raised
    wanted,          \* download: the order_ids passed in
    n_polled,        \* download: the status requests answered so far
    response_items,  \* download: response['items'], the items retained
    files,           \* the output directory: file name -> byte size, or Absent
    files0,          \* history: the output directory when download was called
    item_no,         \* _download_items: the position of its loop
    getLog,          \* history: the GETs download issued
    fileLog,         \* history: the files download removed or wrote
    download_result, \* what download returned
    client_result,   \* what the constructor or the collection setter did last
    clientLog,       \* history: the requests the constructor issued
    n_assigned,      \* assignments to the collection property so far
    uuids,           \* download_dds: the granule UUIDs passed in
    n_workers,       \* download_dds: the width of its worker pool
    dds_access_token, \* self._dds_access_token, shared by the workers
    token_file,      \* the token cache ~/.eodms/aaa_creds.json
    dds_items,       \* the tasks of the pool, one _download_dds_item per UUID
    completion,      \* history: the tasks in the order they finished
    early,           \* the tasks as_completed found finished when it began
    yielded,         \* the tasks as_completed has yielded, in that order
    dds_result,      \* what download_dds returned or raised
    tokenLog,        \* history: who read, wrote the cache, assigned the token
    order_item,      \* _extract_download_metadata: the order item passed in
    extracted,       \* what _extract_download_metadata returned or raised
    keys,            \* _fetch_single_record_metadata: the fields asked for
    response,        \* the parsed body of the detail response
    metadata         \* the record _fetch_single_record_metadata has built

searchVars == <<search_url, searchLog, search_response>>

metaVars == <<meta_urls, futures, results, outOfOrder, normalizerInput>>

orderVars == <<record_ids, priority, idx, order_ids, posts, order_result>>

downloadVars == <<wanted, n_polled, response_items, files, files0, item_no,
                  getLog, fileLog, download_result>>

clientVars == <<client_result, clientLog, n_assigned>>

ddsVars == <<uuids, n_workers, dds_access_token, token_file, dds_items,
             completion, early, yielded, dds_result, tokenLog>>

\* the arguments and results of the helpers that are followed on their own
helperVars == <<order_item, extracted, keys, response, metadata>>

vars == <<pc, collection, clientVars, searchVars, metaVars, orderVars,
          downloadVars, ddsVars, helperVars>>

\* what the operations of one component leave alone
outsideQuery == <<collection, clientVars, orderVars, downloadVars, ddsVars,
                  helperVars>>

outsideOrder == <<collection, clientVars, searchVars, metaVars, downloadVars,
                  ddsVars, helperVars>>

outsideDownload == <<collection, clientVars, searchVars, metaVars, orderVars,
                     ddsVars, helperVars>>

outsideDds == <<collection, clientVars, searchVars, metaVars, orderVars,
                downloadVars, helperVars>>

----------------------------------------------------------------------------
(* Program constants *)

EODMS_DEFAULT_MAXRESULTS == 1000

EODMS_COLLECTIONS ==
    {"Radarsat1", "Radarsat2", "RCMImageProducts", "NAPL", "PlanetScope"}

----------------------------------------------------------------------------
(* Bounds of the model *)

\* search GETs one call of query may issue before the model stops following it
MaxSearchGets == 4

\* hits in one search page
MaxHits == 5

\* the collections and the escaped filter expressions the model searches with
QueryCollections == {"Radarsat1", "RCMImageProducts"}

PreppedQueries == {"q%3D1", "q%3D2"}

NoValue == [kind |-> "none"]

----------------------------------------------------------------------------
(* The search URL.  validate_query_args returns quote(...), so the query   *)
(* holds no '&' and no '=': the URL is a sequence of key=value parameters  *)
(* of which exactly one has the key maxResults.                            *)

EODMS_REST_SEARCH(coll, query) ==
    << [k |-> "collection", v |-> coll],
       [k |-> "query",      v |-> query],
       [k |-> "maxResults", v |-> EODMS_DEFAULT_MAXRESULTS],
       [k |-> "format",     v |-> "json"] >>

\* re.search(r'&maxResults=([\d*]+)', url).group(1): the first match
ParseMaxResults(url) ==
    LET i == CHOOSE i \in DOMAIN url :
                 /\ url[i].k = "maxResults"
                 /\ \A j \in 1..(i - 1) : url[j].k # "maxResults"
    IN  url[i].v

\* url.replace('&maxResults=%d' % old, '&maxResults=%d' % new): every match
ReplaceMaxResults(url, old, new) ==
    [i \in DOMAIN url |->
        IF url[i].k = "maxResults" /\ url[i].v = old
        THEN [k |-> "maxResults", v |-> new]
        ELSE url[i]]

UrlParam(url, key) ==
    LET i == CHOOSE i \in DOMAIN url : url[i].k = key IN url[i].v

\* the mutants of the pager's arithmetic and of its saturation test
NewMaxResultsSmallStep(old_maxResults) == old_maxResults + 150

NewMaxResultsReset(old_maxResults) == EODMS_DEFAULT_MAXRESULTS

NewMaxResultsSame(old_maxResults) == old_maxResults

NewMaxResults(old_maxResults) == old_maxResults + EODMS_DEFAULT_MAXRESULTS

SaturatedNever(totalResults, old_maxResults) == FALSE

Saturated(totalResults, old_maxResults) == totalResults = old_maxResults

----------------------------------------------------------------------------
(* What the server may answer to a search GET *)

\* the detail URLs of a page of n hits, in one of two orders
HitUrls(n, rev) == [i \in 1..n |-> IF rev THEN n + 1 - i ELSE i]

SearchPages == { HitUrls(n, rev) : n \in 0..MaxHits, rev \in BOOLEAN }

\* totalResults values around the limit of the request
TotalChoices(limit) == {0, 1, limit - 1, limit, limit + 1}

SearchJson(limit) ==
    [kind : {"json"}, totalResults : TotalChoices(limit), results : SearchPages]

----------------------------------------------------------------------------
(* EodmsAPI.query up to the call of _submit_search *)

QueryStart(prepped_query) ==
    /\ pc = "query"
    /\ search_url' = EODMS_REST_SEARCH(collection, prepped_query)
    /\ pc' = "submit_search"
    /\ UNCHANGED <<searchLog, search_response, metaVars, outsideQuery>>

CanGet == Len(searchLog) < MaxSearchGets

\* one entry per GET issued: its URL, what came back, the totalResults of a
\* parsed body (-1 otherwise) and whether the body was returned to the caller
Logged(resp, total, returned) ==
    Append(searchLog, [url |-> search_url, resp |-> resp, total |-> total,
                       returned |-> returned])

\* what may come of a search GET: the request raises ConnectionError, or a
\* response arrives with its r.ok, with or without the maintenance sentinel
\* in r.text, with a body r.json() parses or not
SearchOutcomes ==
    { [connection_error |-> TRUE,  ok |-> FALSE, sentinel |-> FALSE, is_json |-> FALSE],
      [connection_error |-> FALSE, ok |-> FALSE, sentinel |-> FALSE, is_json |-> FALSE],
      [connection_error |-> FALSE, ok |-> TRUE,  sentinel |-> TRUE,  is_json |-> FALSE],
      [connection_error |-> FALSE, ok |-> TRUE,  sentinel |-> FALSE, is_json |-> FALSE],
      [connection_error |-> FALSE, ok |-> TRUE,  sentinel |-> FALSE, is_json |-> TRUE] }

\* the mutant: a ConnectionError is not caught
SearchBranchNoRetry(r) ==
    IF r.connection_error THEN "raise"
    ELSE IF ~r.ok THEN "fall_through"
    ELSE IF r.sentinel THEN "maintenance"
    ELSE IF r.is_json THEN "parsed" ELSE "json_error"

\* lines 130-160: what _submit_search does with the outcome of its GET
SearchBranch(r) ==
    IF r.connection_error THEN "retry"
    ELSE IF ~r.ok THEN "fall_through"
    ELSE IF r.sentinel THEN "maintenance"
    ELSE IF r.is_json THEN "parsed" ELSE "json_error"

\* the GET raises ConnectionError: sleep(3) and the recursive call
SubmitSearchConnectionError ==
    /\ pc = "submit_search"
    /\ CanGet
    /\ \E r \in SearchOutcomes :
          /\ r.connection_error
          /\ pc' = IF SearchBranch(r) = "retry" THEN pc ELSE "raised"
    /\ searchLog' = Logged("connerr", -1, FALSE)
    /\ UNCHANGED <<search_url, search_response, metaVars, outsideQuery>>

\* a non-2xx response: the method falls off its end and returns None
SubmitSearchNotOk ==
    /\ pc = "submit_search"
    /\ CanGet
    /\ \E r \in SearchOutcomes : SearchBranch(r) = "fall_through"
    /\ searchLog' = Logged("http_error", -1, FALSE)
    /\ search_response' = NoValue
    /\ pc' = "after_search"
    /\ UNCHANGED <<search_url, metaVars, outsideQuery>>

\* HTTP 200 with the maintenance page: {'results': []} without parsing
SubmitSearchMaintenance ==
    /\ pc = "submit_search"
    /\ CanGet
    /\ \E r \in SearchOutcomes : SearchBranch(r) = "maintenance"
    /\ searchLog' = Logged("maintenance", -1, FALSE)
    /\ search_response' = [kind |-> "maintenance", results |-> <<>>]
    /\ pc' = "after_search"
    /\ UNCHANGED <<search_url, metaVars, outsideQuery>>

\* HTTP 200 with a body r.json() cannot parse: JSONDecodeError propagates
SubmitSearchBadJson ==
    /\ pc = "submit_search"
    /\ CanGet
    /\ \E r \in SearchOutcomes : SearchBranch(r) = "json_error"
    /\ searchLog' = Logged("bad_json", -1, FALSE)
    /\ pc' = "raised"
    /\ UNCHANGED <<search_url, search_response, metaVars, outsideQuery>>

\* lines 144-160, HTTP 200 with the parsed body data: requery with a larger
\* limit, or return it
SubmitSearchParsed(data) ==
    /\ pc = "submit_search"
    /\ CanGet
    /\ \E r \in SearchOutcomes : SearchBranch(r) = "parsed"
    /\ LET old_maxResults == ParseMaxResults(search_url) IN
          IF Saturated(data.totalResults, old_maxResults)
          THEN /\ searchLog' = Logged("json", data.totalResults, FALSE)
               /\ search_url' = ReplaceMaxResults(search_url, old_maxResults,
                                                  NewMaxResults(old_maxResults))
               /\ UNCHANGED <<pc, search_response>>
          ELSE /\ searchLog' = Logged("json", data.totalResults, TRUE)
               /\ search_response' = data
               /\ pc' = "after_search"
               /\ UNCHANGED search_url
    /\ UNCHANGED <<metaVars, outsideQuery>>

\* the server reports any totalResults around the limit of the request
SubmitSearchJson ==
    /\ pc = "submit_search"
    /\ \E data \in SearchJson(ParseMaxResults(search_url)) :
          SubmitSearchParsed(data)

\* query, lines 107-112: search_response['hitCount'] raises on the None of a
\* non-2xx response (TypeError) and on the {'results': []} of the maintenance
\* page (KeyError); a parsed page goes on to _fetch_metadata
QueryAfterSearch ==
    /\ pc = "after_search"
    /\ pc' = IF search_response.kind = "json" THEN "fetch_metadata" ELSE "raised"
    /\ UNCHANGED <<searchVars, metaVars, outsideQuery>>

\* a client whose construction is not followed
ClientIdle ==
    /\ client_result = NoValue
    /\ clientLog = <<>>
    /\ n_assigned = 0

MetaIdle ==
    /\ meta_urls = <<>>
    /\ futures = <<>>
    /\ results = <<>>
    /\ outOfOrder = FALSE
    /\ normalizerInput = NoValue

OrderIdle ==
    /\ record_ids = <<>>
    /\ priority = <<>>
    /\ idx = 0
    /\ order_ids = <<>>
    /\ posts = <<>>
    /\ order_result = NoValue

SearchIdle ==
    /\ search_url = <<>>
    /\ searchLog = <<>>
    /\ search_response = NoValue

Absent == -1

DownloadIdle ==
    /\ wanted = <<>>
    /\ n_polled = 0
    /\ response_items = <<>>
    /\ files = [f \in {} |-> Absent]
    /\ files0 = files
    /\ item_no = 0
    /\ getLog = <<>>
    /\ fileLog = <<>>
    /\ download_result = NoValue

\* self._dds_access_token before any token was acquired: None
NoToken == -1

\* a client whose download_dds is not followed
DdsIdle ==
    /\ uuids = <<>>
    /\ n_workers = 0
    /\ dds_access_token = NoToken
    /\ token_file = [kind |-> "absent"]
    /\ dds_items = <<>>
    /\ completion = <<>>
    /\ early = {}
    /\ yielded = <<>>
    /\ dds_result = NoValue
    /\ tokenLog = <<>>

\* the helpers are not followed
HelpersIdle ==
    /\ order_item = NoValue
    /\ extracted = NoValue
    /\ keys = <<>>
    /\ response = NoValue
    /\ metadata = NoValue

SearchInit ==
    /\ pc = "query"
    /\ collection \in QueryCollections
    /\ ClientIdle
    /\ SearchIdle
    /\ MetaIdle
    /\ OrderIdle
    /\ DownloadIdle
    /\ DdsIdle
    /\ HelpersIdle

SearchNext ==
    \/ \E q \in PreppedQueries : QueryStart(q)
    \/ SubmitSearchConnectionError
    \/ SubmitSearchNotOk
    \/ SubmitSearchMaintenance
    \/ SubmitSearchBadJson
    \/ SubmitSearchJson
    \/ QueryAfterSearch

SpecSearch == SearchInit /\ [][SearchNext]_vars

----------------------------------------------------------------------------
(* Claims about the search pager *)

LimitOf(url) == UrlParam(url, "maxResults")

\* the URL of the request that follows the i-th one: the next one issued, or
\* the one the pager is about to issue
UrlAfter(i) == IF i < Len(searchLog) THEN searchLog[i + 1].url ELSE search_url

SaturatedAt(i) ==
    /\ searchLog[i].resp = "json"
    /\ searchLog[i].total = LimitOf(searchLog[i].url)

\* C1: a parsed search response whose totalResults equals the limit of its
\* request is not returned to the caller; the pager issues one further request
\* next, with the same collection and filter and the limit raised by
\* EODMS_DEFAULT_MAXRESULTS.
C1_SaturationRequeries ==
    \A i \in DOMAIN searchLog :
        SaturatedAt(i) =>
            /\ ~searchLog[i].returned
            /\ i = Len(searchLog) => pc = "submit_search" /\ search_response = NoValue
            /\ UrlParam(UrlAfter(i), "collection") = UrlParam(searchLog[i].url, "collection")
            /\ UrlParam(UrlAfter(i), "query") = UrlParam(searchLog[i].url, "query")
            /\ LimitOf(UrlAfter(i)) = LimitOf(searchLog[i].url) + EODMS_DEFAULT_MAXRESULTS
            /\ LimitOf(UrlAfter(i)) > LimitOf(searchLog[i].url)

C1_Witness ==
    \E i \in DOMAIN searchLog : SaturatedAt(i) /\ i < Len(searchLog)

\* C2: a parsed page returned by _submit_search has totalResults strictly
\* below the limit of the request that produced it, whatever totalResults the
\* server reports.
C2_ReturnedPageBelowLimit ==
    \A i \in DOMAIN searchLog :
        searchLog[i].returned => searchLog[i].total < LimitOf(searchLog[i].url)

\* C3: from one issued search request to the next the limit never decreases:
\* it is unchanged after a ConnectionError and strictly larger after a
\* saturated page.
C3_LimitNeverDecreases ==
    \A i \in DOMAIN searchLog :
        (i < Len(searchLog) \/ pc = "submit_search") =>
            /\ LimitOf(UrlAfter(i)) >= LimitOf(searchLog[i].url)
            /\ searchLog[i].resp = "connerr" => UrlAfter(i) = searchLog[i].url
            /\ SaturatedAt(i) => LimitOf(UrlAfter(i)) > LimitOf(searchLog[i].url)

C3_Witness ==
    \E i, j \in 1..(Len(searchLog) - 1) :
        /\ searchLog[i].resp = "connerr"
        /\ SaturatedAt(j)
        /\ i > j

\* C15: a search response that is the maintenance page (HTTP 200 with the
\* sentinel text) is a zero-hit result: query does not raise and goes on to
\* _fetch_metadata with an empty list of hits.
C15_MaintenancePageIsZeroHits ==
    (\E i \in DOMAIN searchLog : searchLog[i].resp = "maintenance") =>
        /\ pc # "raised"
        /\ pc # "after_search" => Len(search_response.results) = 0

\* C24: a ConnectionError of the search GET is never surfaced to the caller:
\* each one is followed by a request with the identical URL, or (when it is
\* the latest event) leaves _submit_search about to issue that request with
\* nothing returned and nothing raised; the number of ConnectionErrors so far
\* does not matter, there is no cap on the retries.
C24_ConnectionErrorRetriedSameUrl ==
    \A i \in DOMAIN searchLog :
        searchLog[i].resp = "connerr" =>
            /\ UrlAfter(i) = searchLog[i].url
            /\ i = Len(searchLog) =>
                  /\ pc = "submit_search"
                  /\ search_response = NoValue
                  /\ CanGet => ENABLED SubmitSearchConnectionError

\* two ConnectionErrors in a row, then the request that is answered
C24_Witness ==
    /\ Len(searchLog) >= 3
    /\ searchLog[1].resp = "connerr"
    /\ searchLog[2].resp = "connerr"
    /\ searchLog[3].url = searchLog[1].url
    /\ searchLog[Len(searchLog)].returned

\* C26: a non-2xx search response ends query with an explicit failure that
\* carries the HTTP status and reason: the call raises, and what it raises
\* is built from the response.
C26_HttpErrorReportedWithStatus ==
    (\E i \in DOMAIN searchLog : searchLog[i].resp = "http_error") =>
        /\ pc \in {"after_search", "raised"}
        /\ pc = "raised" => /\ search_response # NoValue
                            /\ search_response.kind = "HTTPError"

----------------------------------------------------------------------------
(* Termination of the pager.  The server holds a fixed number of matching  *)
(* records and reports that number capped at the limit of each request;    *)
(* only finitely many requests of one call fail with ConnectionError.      *)

\* the ConnectionErrors one call meets
MaxConnErrors == 2

\* the largest number of matching records the server holds
MaxServerTotal == 1001

Min(a, b) == IF a <= b THEN a ELSE b

ServerTotals == {n \in 0..MaxServerTotal : n < 2 \/ n >= 999}

ConnErrors == Cardinality({i \in DOMAIN searchLog : searchLog[i].resp = "connerr"})

\* some fixed number of records N explains every page received so far
ConsistentTotal(N) ==
    \A i \in DOMAIN searchLog :
        searchLog[i].resp = "json" =>
            searchLog[i].total = Min(N, LimitOf(searchLog[i].url))

PagerConnectionError ==
    /\ ConnErrors < MaxConnErrors
    /\ SubmitSearchConnectionError

PagerJson ==
    /\ pc = "submit_search"
    /\ \E N \in ServerTotals, page \in SearchPages :
          /\ ConsistentTotal(N)
          /\ SubmitSearchParsed([kind |-> "json",
                                 totalResults |-> Min(N, LimitOf(search_url)),
                                 results |-> page])

PagerNext ==
    \/ \E q \in PreppedQueries : QueryStart(q)
    \/ PagerConnectionError
    \/ PagerJson
    \/ QueryAfterSearch

\* the calling thread keeps running: sleep(3) ends and every GET is answered
SpecPager == SearchInit /\ [][PagerNext]_vars /\ WF_vars(PagerNext)

\* C25: under these two assumptions _submit_search eventually returns a page
\* to query.
C25_SubmitSearchReturns == <>(search_response.kind = "json")

\* returned after every ConnectionError the call may meet and a saturated page
C25_Witness ==
    /\ search_response.kind = "json"
    /\ ConnErrors = MaxConnErrors
    /\ \E i \in DOMAIN searchLog : SaturatedAt(i)

----------------------------------------------------------------------------
(* EodmsAPI._fetch_metadata: one task per hit on a ThreadPoolExecutor,     *)
(* collected by list(executor.map(...)).                                   *)

\* the default of the max_workers parameter of _fetch_metadata
max_workers == 4

\* what _fetch_single_record_metadata may do with one detail URL: fill the
\* record (r.ok), return the empty record (r.ok false), raise the timeout or
\* connection exception of the GET (line 220, not caught), or raise on a body
\* that json() cannot parse or that lacks a field (lines 222-242)
DetailOutcomes == {"filled", "empty", "timeout", "bad_body"}

\* the outcomes that end the task with an exception
RaisingOutcomes == {"timeout", "bad_body"}

\* generate_meta_keys(collection)
generate_meta_keys(coll) ==
    CASE coll = "RCMImageProducts" ->
           << "recordId", "title", "Acquisition Start Date",
              "Acquisition End Date", "Satellite ID", "Beam Mnemonic",
              "Beam Mode Type", "Beam Mode Description", "Beam Mode Version",
              "Spatial Resolution", "Polarization Data Mode", "Polarization",
              "Polarization in Product", "Number of Azimuth Looks",
              "Number of Range Looks", "Incidence Angle (Low)",
              "Incidence Angle (High)", "Orbit Direction", "LUT Applied",
              "Product Format", "Product Type", "Product Ellipsoid",
              "Sample Type", "Sampled Pixel Spacing", "Data Type",
              "SIP Size (MB)", "Relative Orbit", "Absolute Orbit",
              "Orbit Data Source" >>
      [] coll = "Radarsat2" ->
           << "Sequence Id", "Supplier Order Number", "Start Date", "End Date",
              "Position", "Sensor", "Sensor Mode", "Beam", "Polarization",
              "Look Orientation", "Incidence Angle (Low)",
              "Incidence Angle (High)", "Orbit Direction", "Absolute Orbit",
              "LUT Applied", "Product Format", "Product Type",
              "Spatial Resolution", "SIP Size (MB)" >>
      [] coll = "Radarsat1" ->
           << "Sequence Id", "Product Id", "Start Date", "End Date",
              "Position", "Sensor", "Sensor Mode", "Beam", "Polarization",
              "Look Orientation", "Incidence Angle (Low)",
              "Incidence Angle (High)", "Orbit Direction", "Absolute Orbit",
              "LUT Applied", "Product Format", "Product Type",
              "Spatial Resolution", "SIP Size (MB)" >>
      [] coll = "PlanetScope" ->
           << "Sequence Id", "Title", "Start Date", "End Date", "Beam",
              "Cloud Cover", "Product Format", "Product Type",
              "Sun Azimuth Angle", "Sun Elevation Angle", "SIP Size (MB)" >>
      [] coll = "NAPL" ->
           << "Sequence Id", "Title", "Start Date", "End Date", "Altitude",
              "Viewing Angle", "Scale", "SIP Size (MB)" >>

\* the keys of a Python dict built from a list of keys
Keys(fields) == { fields[i] : i \in DOMAIN fields }

\* the mutant: the empty structure without its geometry entry
EmptyResultsNoGeometry(metadata_fields) ==
    [k \in Keys(metadata_fields) |-> <<>>]

\* lines 182-183: {k: [] for k in metadata_fields}, then ['geometry'] = []
EmptyResults(metadata_fields) ==
    [k \in Keys(metadata_fields) \cup {"geometry"} |-> <<>>]

Running == { i \in DOMAIN futures : futures[i].st = "running" }

\* line 180-183: no hit, so no task: empty lists for the fields and geometry
FetchMetadataNoResults ==
    /\ pc = "fetch_metadata"
    /\ Len(search_response.results) = 0
    /\ normalizerInput' =
          [kind |-> "columns",
           columns |-> EmptyResults(generate_meta_keys(collection))]
    /\ pc' = "done"
    /\ UNCHANGED <<searchVars, meta_urls, futures, results, outOfOrder, outsideQuery>>

\* lines 185-196: executor.map submits every task before it returns
FetchMetadataSubmit ==
    /\ pc = "fetch_metadata"
    /\ Len(search_response.results) # 0
    /\ meta_urls' = search_response.results
    /\ futures' = [i \in DOMAIN search_response.results |->
                      [st |-> "queued", url |-> search_response.results[i],
                       out |-> "none"]]
    /\ pc' = "collect"
    /\ UNCHANGED <<searchVars, results, outOfOrder, normalizerInput, outsideQuery>>

\* the mutant: a pool that starts a thread for every task
WorkerIdleUnbounded == TRUE

\* line 187: the pool has max_workers threads, each runs one task at a time
WorkerIdle == Cardinality(Running) < max_workers

\* an idle worker thread takes the oldest queued task and issues its GET
WorkerStart(i) ==
    /\ pc \in {"collect", "unwinding"}
    /\ i \in DOMAIN futures
    /\ futures[i].st = "queued"
    /\ \A j \in 1..(i - 1) : futures[j].st # "queued"
    /\ WorkerIdle
    /\ futures' = [futures EXCEPT ![i].st = "running"]
    /\ UNCHANGED <<pc, searchVars, meta_urls, results, outOfOrder, normalizerInput, outsideQuery>>

\* a running task ends, in any order among the running ones
WorkerFinish(i, outcome) ==
    /\ pc \in {"collect", "unwinding"}
    /\ i \in DOMAIN futures
    /\ futures[i].st = "running"
    /\ futures' = [futures EXCEPT ![i].st = "done", ![i].out = outcome]
    /\ outOfOrder' = (outOfOrder \/ \E j \in 1..(i - 1) : futures[j].st # "done")
    /\ UNCHANGED <<pc, searchVars, meta_urls, results, normalizerInput, outsideQuery>>

\* the mutant: the record of a finished task not yet taken, the last
\* submitted one first, instead of the next in submission order
NextResultAnyFinished ==
    LET left == { k \in DOMAIN futures :
                    /\ futures[k].st = "done"
                    /\ \A r \in DOMAIN results : results[r].task # k }
    IN  IF left = {} THEN Len(results) + 1
        ELSE CHOOSE k \in left : \A m \in left : m <= k

\* executor.map's result iterator yields the futures in submission order
NextResult == Len(results) + 1

\* list(...) takes the next record: it waits for that task, whatever the
\* others did; a task that raised makes the iterator raise, which cancels
\* the tasks still queued
CollectNext ==
    /\ pc = "collect"
    /\ Len(results) < Len(futures)
    /\ LET i == NextResult IN
       /\ futures[i].st = "done"
       /\ IF futures[i].out \in RaisingOutcomes
          THEN /\ futures' = [j \in DOMAIN futures |->
                                 IF futures[j].st = "queued"
                                 THEN [futures[j] EXCEPT !.st = "cancelled"]
                                 ELSE futures[j]]
               /\ pc' = "unwinding"
               /\ UNCHANGED results
          ELSE /\ results' = Append(results,
                                [task |-> i, from |-> futures[i].url,
                                 filled |-> futures[i].out = "filled"])
               /\ UNCHANGED <<pc, futures>>
    /\ UNCHANGED <<searchVars, meta_urls, outOfOrder, normalizerInput, outsideQuery>>

\* the with block ends once no task is running (shutdown(wait=True)); then
\* line 203 hands the list to metadata_to_gdf
FetchMetadataReturn ==
    /\ pc = "collect"
    /\ Len(results) = Len(futures)
    /\ normalizerInput' = [kind |-> "records", records |-> results]
    /\ pc' = "done"
    /\ UNCHANGED <<searchVars, meta_urls, futures, results, outOfOrder, outsideQuery>>

\* the with block ends with the exception: it propagates out of query
FetchMetadataRaise ==
    /\ pc = "unwinding"
    /\ Running = {}
    /\ pc' = "raised"
    /\ UNCHANGED <<searchVars, metaVars, outsideQuery>>

\* a page _submit_search returned, at the call of _fetch_metadata
MetaInit ==
    /\ pc = "fetch_metadata"
    /\ collection \in QueryCollections
    /\ ClientIdle
    /\ \E r \in SearchPages :
          /\ search_url = EODMS_REST_SEARCH(collection, "q%3D1")
          /\ search_response = [kind |-> "json", totalResults |-> Len(r),
                                results |-> r]
          /\ searchLog = << [url |-> search_url, resp |-> "json",
                             total |-> Len(r), returned |-> TRUE] >>
    /\ MetaIdle
    /\ OrderIdle
    /\ DownloadIdle
    /\ DdsIdle
    /\ HelpersIdle

MetaNext ==
    \/ FetchMetadataNoResults
    \/ FetchMetadataSubmit
    \/ \E i \in 1..MaxHits : WorkerStart(i)
    \/ \E i \in 1..MaxHits, o \in DetailOutcomes : WorkerFinish(i, o)
    \/ CollectNext
    \/ FetchMetadataReturn
    \/ FetchMetadataRaise

SpecMeta == MetaInit /\ [][MetaNext]_vars

----------------------------------------------------------------------------
(* EodmsAPI.query: the pager followed by the metadata fetch of the page it *)
(* returned, against a server that holds a fixed number of records.        *)

\* lines 103-112: _submit_search, then _fetch_metadata on what it returned
QueryNext ==
    \/ QueryStart("q%3D1")
    \/ PagerJson
    \/ QueryAfterSearch
    \/ MetaNext

SpecQuery == SearchInit /\ [][QueryNext]_vars

----------------------------------------------------------------------------
(* Claims about the metadata enricher *)

\* C4: for a non-empty page the normalizer receives one record per hit, the
\* i-th made from the i-th hit's detail URL, whatever the order in which the
\* tasks completed.
C4_RecordsAlignedWithHits ==
    (normalizerInput.kind = "records") =>
        /\ Len(normalizerInput.records) = Len(search_response.results)
        /\ \A i \in DOMAIN normalizerInput.records :
              normalizerInput.records[i].from = search_response.results[i]

\* the tasks completed in another order than they were submitted
C4_Witness ==
    /\ normalizerInput.kind = "records"
    /\ Len(normalizerInput.records) >= 2
    /\ outOfOrder

\* a detail GET has been issued for every task that left the queue
DetailGets == { i \in DOMAIN futures : futures[i].st \in {"running", "done"} }

\* C14: a detail GET that fails, by a response that is not ok or by an
\* exception the request raises, does not abort the batch: the call does not
\* raise, and the normalizer gets a record for every hit.
C14_FailedDetailGetKeepsTheBatch ==
    (\A i \in DOMAIN futures : futures[i].out # "bad_body") =>
        /\ pc \notin {"unwinding", "raised"}
        /\ pc = "done" /\ futures # <<>> =>
              /\ normalizerInput.kind = "records"
              /\ Len(normalizerInput.records) = Len(search_response.results)

Superseded == { i \in DOMAIN searchLog : SaturatedAt(i) /\ ~searchLog[i].returned }

C20_ZeroHitsGiveEmptyColumns ==
    (pc = "done" /\ Len(search_response.results) = 0) =>
        /\ DetailGets = {}
        /\ futures = <<>>
        /\ normalizerInput.kind = "columns"
        /\ DOMAIN normalizerInput.columns =
              Keys(generate_meta_keys(collection)) \cup {"geometry"}
        /\ \A k \in DOMAIN normalizerInput.columns :
              normalizerInput.columns[k] = <<>>

C20_Witness ==
    /\ pc = "done"
    /\ search_response.results = <<>>
    /\ collection = "RCMImageProducts"
    /\ "Orbit Data Source" \in DOMAIN normalizerInput.columns

----------------------------------------------------------------------------
(* EodmsAPI.order.  A Python str is a sequence of one-character strings.   *)

EODMS_SUBMIT_HARDLIMIT == 50

LowerCase ==
    << "a", "b", "c", "d", "e", "f", "g", "h", "i", "j", "k", "l", "m",
       "n", "o", "p", "q", "r", "s", "t", "u", "v", "w", "x", "y", "z" >>

UpperCase ==
    << "A", "B", "C", "D", "E", "F", "G", "H", "I", "J", "K", "L", "M",
       "N", "O", "P", "Q", "R", "S", "T", "U", "V", "W", "X", "Y", "Z" >>

ToUpper(c) ==
    IF \E i \in DOMAIN LowerCase : LowerCase[i] = c
    THEN UpperCase[CHOOSE i \in DOMAIN LowerCase : LowerCase[i] = c]
    ELSE c

ToLower(c) ==
    IF \E i \in DOMAIN UpperCase : UpperCase[i] = c
    THEN LowerCase[CHOOSE i \in DOMAIN UpperCase : UpperCase[i] = c]
    ELSE c

\* str.capitalize(): the first character upper case, the others lower case
Capitalize(str) ==
    [i \in DOMAIN str |-> IF i = 1 THEN ToUpper(str[i]) ELSE ToLower(str[i])]

\* the list in line 258
PRIORITIES ==
    { <<"L", "o", "w">>,
      <<"M", "e", "d", "i", "u", "m">>,
      <<"H", "i", "g", "h">>,
      <<"U", "r", "g", "e", "n", "t">> }

\* the mutant: no validation of the priority
PriorityUnchecked(str) == TRUE

\* line 258: priority.capitalize() in [...]
PriorityRecognized(str) == Capitalize(str) \in PRIORITIES

Digits == << "0", "1", "2", "3", "4", "5", "6", "7", "8", "9" >>

RECURSIVE Str(_)
\* str(record_id) of a non-negative integer: its decimal digits
Str(n) ==
    IF n < 10 THEN << Digits[n + 1] >>
    ELSE Str(n \div 10) \o << Digits[(n % 10) + 1] >>

\* the mutant: a slice that reaches one item into the next chunk
RecordSubsetOverlapping(ids, i) ==
    SubSeq(ids, i + 1, Min(i + EODMS_SUBMIT_HARDLIMIT + 1, Len(ids)))

\* record_ids[idx:idx+EODMS_SUBMIT_HARDLIMIT]
RecordSubset(ids, i) ==
    SubSeq(ids, i + 1, Min(i + EODMS_SUBMIT_HARDLIMIT, Len(ids)))

\* the mutant: the priority is sent as the caller wrote it
ItemPriorityAsGiven(str) == str

\* line 285: 'priority': priority.capitalize()
ItemPriority(str) == Capitalize(str)

\* lines 279-294: one item per record id of the chunk
OrderItems(record_subset) ==
    [i \in DOMAIN record_subset |->
        [collectionId    |-> collection,
         recordId        |-> Str(record_subset[i]),
         priority        |-> ItemPriority(priority),
         packagingFormat |-> "ZIP"]]

\* what the server may answer to the POST of a chunk: r.ok, whether r.json()
\* parses the body, r.status_code and r.reason
PostResponses ==
    { [ok |-> TRUE,  is_json |-> TRUE,  status_code |-> 200, reason |-> "OK"],
      [ok |-> TRUE,  is_json |-> FALSE, status_code |-> 200, reason |-> "OK"],
      [ok |-> FALSE, is_json |-> FALSE, status_code |-> 404, reason |-> "Not Found"],
      [ok |-> FALSE, is_json |-> FALSE, status_code |-> 503,
       reason |-> "Service Unavailable"] }

\* the kind of a response, as the history of the POSTs records it
ResponseClass(r) ==
    IF ~r.ok THEN "not_ok" ELSE IF r.is_json THEN "ok" ELSE "bad_json"

\* the mutant: a response that is not ok is logged like an unreadable body
PostBranchTolerant(r) == IF r.ok /\ r.is_json THEN "extend" ELSE "log"

\* the mutant: an unreadable body is raised like a response that is not ok
PostBranchStrict(r) == IF r.ok /\ r.is_json THEN "extend" ELSE "raise"

\* lines 296-308: what order does with the response to a POST
PostBranch(r) ==
    IF r.ok THEN (IF r.is_json THEN "extend" ELSE "log") ELSE "raise"

----------------------------------------------------------------------------
(* Bounds and inputs of the order submitter *)

\* the longest record-id list submitted
MaxRecords == 101

\* the order ids the server hands out are 1..MaxOrderId
MaxOrderId == 2

\* list lengths around the multiples of the cap
RecordCounts ==
    { n \in 0..MaxRecords :
        \/ n < 3
        \/ n % EODMS_SUBMIT_HARDLIMIT \in {0, 1, EODMS_SUBMIT_HARDLIMIT - 1} }

\* lists of distinct record ids, and lists in which ids repeat
RecordIdLists ==
    { [i \in 1..n |-> 100 + i] : n \in RecordCounts }
        \cup { [i \in 1..n |-> 7 + (i % 3)] : n \in RecordCounts }

PriorityInputs ==
    { <<"M", "e", "d", "i", "u", "m">>,
      <<"u", "r", "g", "e", "n", "t">>,
      <<"H", "I", "G", "H">>,
      <<"l", "O", "w">>,
      <<"r", "u", "s", "h">>,
      <<"L", "o", "w", "e", "r">>,
      <<>> }

\* the orders in which list(set(...)) may enumerate a set of order ids
Enumerations(S) ==
    { q \in [1..Cardinality(S) -> S] : \A x \in S : \E i \in DOMAIN q : q[i] = x }

----------------------------------------------------------------------------
(* The operations of order *)

\* lines 256-275: validation, the empty list, the start of the loop
OrderBegin ==
    /\ pc = "order"
    /\ IF ~PriorityRecognized(priority)
       THEN /\ order_result' = [kind |-> "ValueError"]
            /\ pc' = "raised"
       ELSE IF Len(record_ids) < 1
       THEN /\ order_result' = [kind |-> "None"]
            /\ pc' = "done"
       ELSE /\ pc' = "order_loop"
            /\ UNCHANGED order_result
    /\ idx' = 0
    /\ order_ids' = <<>>
    /\ UNCHANGED <<record_ids, priority, posts, outsideOrder>>

\* after a chunk: the next iteration, or the return of line 310
OrderContinue(new_order_ids) ==
    /\ order_ids' = new_order_ids
    /\ idx' = idx + EODMS_SUBMIT_HARDLIMIT
    /\ IF idx' < Len(record_ids)
       THEN UNCHANGED <<pc, order_result>>
       ELSE /\ order_result' = [kind |-> "list", order_ids |-> new_order_ids]
            /\ pc' = "done"

\* one entry per POST issued: the items of its body and what came back
Posted(r) ==
    Append(posts, [items |-> OrderItems(RecordSubset(record_ids, idx)),
                   status |-> ResponseClass(r),
                   status_code |-> r.status_code, reason |-> r.reason])

\* lines 276-309, a 2xx response with a JSON body: the order ids of its
\* items, as a set, are appended
OrderPostAccepted ==
    /\ pc = "order_loop"
    /\ idx < Len(record_ids)
    /\ \E r \in PostResponses :
          /\ PostBranch(r) = "extend"
          /\ posts' = Posted(r)
    /\ \E S \in SUBSET (1..MaxOrderId) : \E q \in Enumerations(S) :
          OrderContinue(order_ids \o q)
    /\ UNCHANGED <<record_ids, priority, outsideOrder>>

\* a 2xx response whose body is no JSON: an error is logged, the loop goes on
OrderPostBadJson ==
    /\ pc = "order_loop"
    /\ idx < Len(record_ids)
    /\ \E r \in PostResponses :
          /\ PostBranch(r) = "log"
          /\ posts' = Posted(r)
    /\ OrderContinue(order_ids)
    /\ UNCHANGED <<record_ids, priority, outsideOrder>>

\* a response that is not ok: ConnectionError is raised, its message made of
\* r.status_code and r.reason
OrderPostRejected ==
    /\ pc = "order_loop"
    /\ idx < Len(record_ids)
    /\ \E r \in PostResponses :
          /\ PostBranch(r) = "raise"
          /\ posts' = Posted(r)
          /\ order_result' = [kind |-> "ConnectionError",
                              status_code |-> r.status_code, reason |-> r.reason]
    /\ pc' = "raised"
    /\ UNCHANGED <<record_ids, priority, idx, order_ids, outsideOrder>>

OrderInit ==
    /\ pc = "order"
    /\ collection \in QueryCollections
    /\ ClientIdle
    /\ SearchIdle
    /\ MetaIdle
    /\ record_ids \in RecordIdLists
    /\ priority \in PriorityInputs
    /\ idx = 0
    /\ order_ids = <<>>
    /\ posts = <<>>
    /\ order_result = NoValue
    /\ DownloadIdle
    /\ DdsIdle
    /\ HelpersIdle

OrderNext ==
    \/ OrderBegin
    \/ OrderPostAccepted
    \/ OrderPostBadJson
    \/ OrderPostRejected

SpecOrder == OrderInit /\ [][OrderNext]_vars

----------------------------------------------------------------------------
(* Claims about the order submitter *)

RECURSIVE Flatten(_)
Flatten(ss) == IF ss = <<>> THEN <<>> ELSE Head(ss) \o Flatten(Tail(ss))

PostedRecordIds == Flatten([k \in DOMAIN posts |->
                      [i \in DOMAIN posts[k].items |-> posts[k].items[i].recordId]])

AllPostsSucceeded ==
    /\ pc = "done"
    /\ order_result.kind = "list"
    /\ \A k \in DOMAIN posts : posts[k].status # "not_ok"

\* ceil(n / c) for n >= 0 and c >= 1
CeilDiv(n, c) == (n + c - 1) \div c

\* C5: for N >= 1 record ids, when every POST succeeds, order issues
\* ceil(N / EODMS_SUBMIT_HARDLIMIT) POSTs of 1 to EODMS_SUBMIT_HARDLIMIT items
\* each, and the recordIds of the POSTs, concatenated in the order issued, are
\* the input list (each id as str(id)), duplicates included.
C5_ChunksPartitionTheInput ==
    (AllPostsSucceeded /\ Len(record_ids) >= 1) =>
        /\ Len(posts) = CeilDiv(Len(record_ids), EODMS_SUBMIT_HARDLIMIT)
        /\ \A k \in DOMAIN posts :
              /\ Len(posts[k].items) >= 1
              /\ Len(posts[k].items) <= EODMS_SUBMIT_HARDLIMIT
        /\ PostedRecordIds = [i \in DOMAIN record_ids |-> Str(record_ids[i])]

\* three POSTs for a list with repeated ids
C5_Witness ==
    /\ AllPostsSucceeded
    /\ Len(posts) = 3
    /\ \E i, j \in DOMAIN record_ids : i # j /\ record_ids[i] = record_ids[j]

\* C6: the sequence of order ids order returns holds no value twice, also
\* when two chunks' responses carry the same orderId.
C6_ReturnedOrderIdsDistinct ==
    (order_result.kind = "list") =>
        \A i, j \in DOMAIN order_result.order_ids :
            i # j => order_result.order_ids[i] # order_result.order_ids[j]

LowerStr(str) == [i \in DOMAIN str |-> ToLower(str[i])]

CaseInsensitivelyRecognized(str) ==
    \E p \in PRIORITIES : LowerStr(p) = LowerStr(str)

\* C10: a priority that is none of Low, Medium, High, Urgent, compared without
\* regard to case, makes order raise its validation error with no HTTP request
\* issued, for every record-id list, the empty one included.
C10_BadPriorityRejectedBeforeAnyRequest ==
    (pc # "order" /\ ~CaseInsensitivelyRecognized(priority)) =>
        /\ order_result.kind = "ValueError"
        /\ pc = "raised"
        /\ posts = <<>>

C10_Witness ==
    /\ pc = "raised"
    /\ order_result.kind = "ValueError"
    /\ priority = <<"r", "u", "s", "h">>
    /\ Len(record_ids) > EODMS_SUBMIT_HARDLIMIT

\* the empty list with a bad priority is rejected too
C10_WitnessEmptyList ==
    /\ pc = "raised"
    /\ order_result.kind = "ValueError"
    /\ record_ids = <<>>

\* C11: when order is called with a recognized priority in any letter case,
\* every item of every POST body carries the priority in its canonical form
\* (one of Low, Medium, High, Urgent, equal to the input up to case), the
\* collection of the client as collectionId and the packagingFormat ZIP.
C11_ItemsCarryCanonicalPriority ==
    LET canonical == { p \in PRIORITIES : LowerStr(p) = LowerStr(priority) } IN
    \A k \in DOMAIN posts : \A i \in DOMAIN posts[k].items :
        /\ posts[k].items[i].priority \in canonical
        /\ posts[k].items[i].collectionId = collection
        /\ posts[k].items[i].packagingFormat = "ZIP"

\* two POSTs were issued for a priority written in another case
C11_Witness ==
    /\ Len(posts) >= 2
    /\ priority = <<"H", "I", "G", "H">>
    /\ posts[2].items[1].priority = <<"H", "i", "g", "h">>

\* C12: called with an empty record-id list and a valid priority, order
\* returns the empty list and issues no HTTP request.
C12_EmptyListReturnsEmptyList ==
    (pc # "order" /\ record_ids = <<>> /\ PriorityRecognized(priority)) =>
        /\ order_result = [kind |-> "list", order_ids |-> <<>>]
        /\ posts = <<>>

\* C13: if the POST of chunk k gets a response that is not ok, the call has
\* raised an error made of that response's status and reason, the POST of
\* chunk k is the last one issued, and no order ids are returned.
C13_RejectedChunkAbortsTheCall ==
    \A k \in DOMAIN posts :
        posts[k].status = "not_ok" =>
            /\ pc = "raised"
            /\ order_result = [kind |-> "ConnectionError",
                               status_code |-> posts[k].status_code,
                               reason |-> posts[k].reason]
            /\ Len(posts) = k
            /\ idx = (k - 1) * EODMS_SUBMIT_HARDLIMIT
            /\ Len(record_ids) > idx

\* the second of three chunks was rejected after the first gave order ids
C13_Witness ==
    /\ pc = "raised"
    /\ Len(posts) = 2
    /\ posts[2].status = "not_ok"
    /\ order_ids # <<>>
    /\ Len(record_ids) > 2 * EODMS_SUBMIT_HARDLIMIT

\* a step in which the POST of a chunk is answered 2xx with a body that is
\* no JSON
BadJsonStep ==
    /\ Len(posts') = Len(posts) + 1
    /\ posts'[Len(posts')].status = "bad_json"

\* C39: a 2xx response whose body is no JSON does not make order raise: the
\* chunk adds no order id, the next chunk is submitted, and after the last
\* chunk the ids of the other chunks are returned, so that the order of a
\* chunk the server accepted is missing from the list.
C39_UnreadableBodySkipsTheChunk ==
    /\ [][BadJsonStep =>
            /\ order_ids' = order_ids
            /\ idx' = idx + EODMS_SUBMIT_HARDLIMIT
            /\ IF idx' < Len(record_ids)
               THEN pc' = "order_loop" /\ order_result' = order_result
               ELSE /\ pc' = "done"
                    /\ order_result' = [kind |-> "list", order_ids |-> order_ids]]_vars
    /\ []((pc = "done" /\ posts # <<>>
            /\ \A k \in DOMAIN posts : posts[k].status = "bad_json") =>
              order_result = [kind |-> "list", order_ids |-> <<>>])

\* the first of two chunks was answered with an unreadable body, the second
\* gave the order ids that are returned
C39_Witness ==
    /\ pc = "done"
    /\ Len(posts) = 2
    /\ posts[1].status = "bad_json"
    /\ posts[2].status = "ok"
    /\ order_result.kind = "list"
    /\ order_result.order_ids # <<>>

----------------------------------------------------------------------------
(* EodmsAPI.download and EodmsAPI._download_items.  An order item carries  *)
(* its orderId, its status, the remote URL its destination string embeds   *)
(* (the segments after the host: the manifest's hash and the file name)    *)
(* and the byte size its manifest gives.                                   *)

\* status requests of one call
MaxPolls == 3

FileNames == {"a.zip", "b.zip"}

\* the byte sizes a file already in the output directory may have
LocalSizes == {1, 2}

\* the order ids the status responses speak of
KnownOrders == {1, 2}

\* the remote files of the model: two of them have the same file name
RemoteFiles ==
    { [url |-> <<"h1", "a.zip">>, fsize |-> 1],
      [url |-> <<"h2", "a.zip">>, fsize |-> 2],
      [url |-> <<"h3", "b.zip">>, fsize |-> 2] }

\* an item that is ready has a remote file; one that is not has none yet
ItemSet ==
    { [orderId |-> o, status |-> "AVAILABLE_FOR_DOWNLOAD",
       url |-> rf.url, fsize |-> rf.fsize] : o \in KnownOrders, rf \in RemoteFiles }
    \cup
    { [orderId |-> o, status |-> "PENDING", url |-> <<>>, fsize |-> 0] :
        o \in KnownOrders }

\* the 'items' of a status response: a response lists an item once, and the
\* items of a call accumulate over its polls
StatusBodies == {<<>>} \cup { <<it>> : it \in ItemSet }

\* what the server may answer to a status GET: r.ok, whether r.text holds
\* the maintenance sentinel, whether r.json() parses the body, and the items
StatusResponses ==
    { [ok |-> FALSE, sentinel |-> FALSE, is_json |-> FALSE, items |-> <<>>],
      [ok |-> TRUE,  sentinel |-> TRUE,  is_json |-> FALSE, items |-> <<>>],
      [ok |-> TRUE,  sentinel |-> FALSE, is_json |-> FALSE, items |-> <<>>] }
    \cup
    { [ok |-> TRUE, sentinel |-> FALSE, is_json |-> TRUE, items |-> body] :
        body \in StatusBodies }

\* the mutant: the maintenance page is logged like a response that is not ok
StatusBranchSentinelLogged(r) ==
    IF r.ok /\ ~r.sentinel
    THEN (IF r.is_json THEN "retain" ELSE "json_error")
    ELSE "log"

\* the mutant: a response that is not ok ends the call
StatusBranchNotOkEnds(r) ==
    IF r.ok
    THEN (IF r.sentinel THEN "return"
          ELSE IF r.is_json THEN "retain" ELSE "json_error")
    ELSE "return"

\* lines 431-446: what download does with the response to a status GET
StatusBranch(r) ==
    IF r.ok
    THEN (IF r.sentinel THEN "return"
          ELSE IF r.is_json THEN "retain" ELSE "json_error")
    ELSE "log"

\* the order-id lists download is called with: order ids are only compared
\* for equality and a status response does not depend on the id asked for,
\* so the lists that start with order 1 and never step down stand for all
WantedLists ==
    { w \in UNION { [1..n -> KnownOrders] : n \in 0..MaxPolls } :
        /\ Len(w) > 0 => w[1] = 1
        /\ \A i \in 1..(Len(w) - 1) : w[i] <= w[i + 1] }

Range(seq) == { seq[i] : i \in DOMAIN seq }

\* os.path.basename(url)
Basename(url) == url[Len(url)]

\* _extract_download_metadata(item): (url, fsize)
ExtractDownloadMetadata(item) == [url |-> item.url, fsize |-> item.fsize]

\* the mutant: items already retained are retained again
RetainedItemsNoDedup(body, order_ids_wanted, items) ==
    SelectSeq(body, LAMBDA item : item.orderId \in Range(order_ids_wanted))

\* lines 437-441: the items of a body that are kept
RetainedItems(body, order_ids_wanted, items) ==
    SelectSeq(body, LAMBDA item :
        item.orderId \in Range(order_ids_wanted) /\ item \notin Range(items))

\* lines 449-453
AvailableRemoteFiles(items) ==
    LET ready == SelectSeq(items, LAMBDA item : item.status = "AVAILABLE_FOR_DOWNLOAD")
    IN  [k \in DOMAIN ready |-> ExtractDownloadMetadata(ready[k])]

available_remote_files == AvailableRemoteFiles(response_items)

\* lines 458-461: os.path.join(output_location, os.path.basename(f[0]))
to_download == [k \in DOMAIN available_remote_files |->
                  Basename(available_remote_files[k].url)]

Exists(fs, name) == fs[name] # Absent

\* the mutant: the content-type is not looked at
WritesFileAlways(is_zip) == TRUE

\* line 376: the body is written when the content-type is application/zip
WritesFile(is_zip) == is_zip

\* the mutant: the file of the wrong size is still there when the response
\* turns out to be no zip file
SkippedFileKept(size) == size

\* lines 360-381: os.remove has run before the content-type is looked at, so
\* nothing is at the path when the item is skipped
SkippedFile(size) == Absent

\* the mutant: an existing file is always taken to be incomplete
LocalFileCompleteNever(fs, name, expected_size) == FALSE

\* line 364: os.stat(local).st_size == expected_size
LocalFileComplete(fs, name, expected_size) == fs[name] = expected_size

----------------------------------------------------------------------------
(* The operations of download *)

\* lines 403-428
DownloadBegin ==
    /\ pc = "download"
    /\ IF Len(wanted) < 1
       THEN /\ download_result' = [kind |-> "list", paths |-> <<>>]
            /\ pc' = "done"
       ELSE /\ pc' = "poll"
            /\ UNCHANGED download_result
    /\ UNCHANGED <<wanted, n_polled, response_items, files, files0, item_no,
                   getLog, fileLog, outsideDownload>>

\* one entry per status GET issued: the order id asked for, r.ok, and
\* whether the maintenance page came back
StatusGet(r) ==
    Append(getLog, [kind |-> "status", orderId |-> wanted[n_polled + 1],
                    ok |-> r.ok, sentinel |-> r.sentinel])

\* the mutant: the loop over status_updates ends after its first request
PollDoneAfterFirst ==
    /\ n_polled' = n_polled + 1
    /\ pc' = "plan"

\* line 429: the loop goes on to the next order id, or ends after the last
PollDone ==
    /\ n_polled' = n_polled + 1
    /\ pc' = IF n_polled' = Len(wanted) THEN "plan" ELSE "poll"

\* lines 429-442: a 2xx status response with items
DownloadPollItems(r) ==
    /\ pc = "poll"
    /\ StatusBranch(r) = "retain"
    /\ getLog' = StatusGet(r)
    /\ response_items' =
          response_items \o RetainedItems(r.items, wanted, response_items)
    /\ PollDone
    /\ UNCHANGED <<wanted, files, files0, item_no, fileLog, download_result,
                   outsideDownload>>

\* lines 443-446: a non-2xx status response is logged
DownloadPollNotOk ==
    /\ pc = "poll"
    /\ \E r \in StatusResponses :
          /\ StatusBranch(r) = "log"
          /\ getLog' = StatusGet(r)
    /\ PollDone
    /\ UNCHANGED <<wanted, response_items, files, files0, item_no, fileLog,
                   download_result, outsideDownload>>

\* lines 433-435: the maintenance page ends the call
DownloadPollMaintenance ==
    /\ pc = "poll"
    /\ \E r \in StatusResponses :
          /\ StatusBranch(r) = "return"
          /\ getLog' = StatusGet(r)
    /\ n_polled' = n_polled + 1
    /\ download_result' = [kind |-> "None", at |-> "maintenance"]
    /\ pc' = "done"
    /\ UNCHANGED <<wanted, response_items, files, files0, item_no, fileLog,
                   outsideDownload>>

\* line 438: a 2xx body that r.json() cannot parse: JSONDecodeError is not
\* caught and leaves download
DownloadPollBadJson ==
    /\ pc = "poll"
    /\ \E r \in StatusResponses :
          /\ StatusBranch(r) = "json_error"
          /\ getLog' = StatusGet(r)
    /\ n_polled' = n_polled + 1
    /\ download_result' = [kind |-> "JSONDecodeError"]
    /\ pc' = "raised"
    /\ UNCHANGED <<wanted, response_items, files, files0, item_no, fileLog,
                   outsideDownload>>

\* lines 447-487: the work list, and whether anything is fetched at all
DownloadPlan ==
    /\ pc = "plan"
    /\ LET already_have == SelectSeq(to_download, LAMBDA f : Exists(files, f)) IN
       IF Len(already_have) < Len(available_remote_files)
       THEN /\ pc' = "download_items"
            /\ item_no' = 1
            /\ UNCHANGED download_result
       ELSE /\ pc' = "done"
            /\ download_result' = [kind |-> "None", at |-> "nothing_to_fetch"]
            /\ UNCHANGED item_no
    /\ UNCHANGED <<wanted, n_polled, response_items, files, files0, getLog,
                   fileLog, outsideDownload>>

\* lines 360-366: the local file is there with the expected size
DownloadItemSkip ==
    /\ pc = "download_items"
    /\ item_no <= Len(available_remote_files)
    /\ LET local == to_download[item_no]
           expected_size == available_remote_files[item_no].fsize
       IN  /\ Exists(files, local)
           /\ LocalFileComplete(files, local, expected_size)
    /\ item_no' = item_no + 1
    /\ UNCHANGED <<pc, wanted, n_polled, response_items, files, files0, getLog,
                   fileLog, download_result, outsideDownload>>

\* lines 360-392: a file of another size is removed; the GET; a zip is
\* written with the bytes the stream delivers (all of them, or one short),
\* anything else is skipped
DownloadItemFetch(is_zip, short) ==
    /\ pc = "download_items"
    /\ item_no <= Len(available_remote_files)
    /\ LET local == to_download[item_no]
           expected_size == available_remote_files[item_no].fsize
           stale == Exists(files, local)
           removed == IF stale
                      THEN <<[op |-> "remove", name |-> local, item |-> item_no]>>
                      ELSE <<>>
           written == IF WritesFile(is_zip)
                      THEN <<[op |-> "write", name |-> local, item |-> item_no]>>
                      ELSE <<>>
           delivered == IF short THEN expected_size - 1 ELSE expected_size
       IN  /\ ~(stale /\ LocalFileComplete(files, local, expected_size))
           /\ ~is_zip => ~short
           /\ getLog' = Append(getLog, [kind |-> "download", item |-> item_no,
                                        url |-> available_remote_files[item_no].url,
                                        zip |-> is_zip])
           /\ fileLog' = fileLog \o removed \o written
           /\ files' = [files EXCEPT ![local] =
                            IF WritesFile(is_zip) THEN delivered
                            ELSE SkippedFile(files[local])]
    /\ item_no' = item_no + 1
    /\ UNCHANGED <<pc, wanted, n_polled, response_items, files0, download_result,
                   outsideDownload>>

\* lines 393, 478-488: the paths that exist after the pass
DownloadReturn ==
    /\ pc = "download_items"
    /\ item_no > Len(available_remote_files)
    /\ download_result' =
          [kind |-> "list",
           paths |-> SelectSeq(to_download, LAMBDA f : Exists(files, f))]
    /\ pc' = "done"
    /\ UNCHANGED <<wanted, n_polled, response_items, files, files0, item_no,
                   getLog, fileLog, outsideDownload>>

DownloadInit ==
    /\ pc = "download"
    /\ collection \in {"Radarsat1"}
    /\ ClientIdle
    /\ SearchIdle
    /\ MetaIdle
    /\ OrderIdle
    /\ DdsIdle
    /\ HelpersIdle
    /\ wanted \in WantedLists
    /\ n_polled = 0
    /\ response_items = <<>>
    /\ files \in [FileNames -> {Absent} \cup LocalSizes]
    /\ files0 = files
    /\ item_no = 0
    /\ getLog = <<>>
    /\ fileLog = <<>>
    /\ download_result = NoValue

DownloadNext ==
    \/ DownloadBegin
    \/ \E r \in StatusResponses : DownloadPollItems(r)
    \/ DownloadPollNotOk
    \/ DownloadPollMaintenance
    \/ DownloadPollBadJson
    \/ DownloadPlan
    \/ DownloadItemSkip
    \/ \E is_zip \in BOOLEAN, short \in BOOLEAN :
          DownloadItemFetch(is_zip, short)
    \/ DownloadReturn

SpecDownload == DownloadInit /\ [][DownloadNext]_vars

----------------------------------------------------------------------------
(* Claims about the download orchestrator.  A ready item is an entry of    *)
(* available_remote_files, known once the status polls are over.           *)

WorkListKnown == pc \in {"plan", "download_items", "done"}

\* the call went through all its status polls and has ended
EndedAfterPolls ==
    /\ pc = "done"
    /\ Len(wanted) >= 1
    /\ download_result # [kind |-> "None", at |-> "maintenance"]

ReadyItems == DOMAIN available_remote_files

ExpectedSize(k) == available_remote_files[k].fsize

DownloadGets(k) ==
    { g \in DOMAIN getLog : getLog[g].kind = "download" /\ getLog[g].item = k }

Removed(name) ==
    \E e \in DOMAIN fileLog : fileLog[e].op = "remove" /\ fileLog[e].name = name

Touched(name) == \E e \in DOMAIN fileLog : fileLog[e].name = name

CompleteAtCall(k) == files0[to_download[k]] = ExpectedSize(k)

MismatchedAtCall(k) ==
    /\ files0[to_download[k]] # Absent
    /\ files0[to_download[k]] # ExpectedSize(k)

\* no other ready item has the same local path with another manifest size
PathNotContested(k) ==
    \A j \in ReadyItems :
        to_download[j] = to_download[k] => ExpectedSize(j) = ExpectedSize(k)

\* C7 as stated: for a ready item whose local file exists with the manifest
\* size, no download GET is issued for the item and the file is neither
\* deleted nor rewritten.
C7_CompleteFileUntouched ==
    WorkListKnown =>
        \A k \in ReadyItems :
            CompleteAtCall(k) =>
                DownloadGets(k) = {} /\ ~Touched(to_download[k])

\* C7 as amended: the same, for a ready item whose local path no other ready
\* item of the call claims with a different manifest size.
C7_CompleteFileUntouchedUnlessContested ==
    WorkListKnown =>
        LET remote == available_remote_files
            local == [k \in DOMAIN remote |-> Basename(remote[k].url)]
        IN  \A k \in DOMAIN remote :
                ( /\ files0[local[k]] = remote[k].fsize
                  /\ \A j \in DOMAIN remote :
                        local[j] = local[k] => remote[j].fsize = remote[k].fsize ) =>
                    DownloadGets(k) = {} /\ ~Touched(local[k])

\* the pass fetched another item and left the complete file alone
C7_Witness ==
    /\ pc = "done"
    /\ download_result.kind = "list"
    /\ \E k, j \in ReadyItems :
          /\ CompleteAtCall(k)
          /\ PathNotContested(k)
          /\ DownloadGets(j) # {}
          /\ to_download[k] \in Range(download_result.paths)

\* C8: a ready item whose local file exists with another size than the
\* manifest's has that file deleted and exactly one download GET issued for
\* it during the call, whatever the local state of the other ready items.
C8_MismatchedFileRefetchedOnce ==
    EndedAfterPolls =>
        \A k \in ReadyItems :
            MismatchedAtCall(k) =>
                Removed(to_download[k]) /\ Cardinality(DownloadGets(k)) = 1

\* C9: a call with at least one order id that went through its status polls
\* returns the sequence of the local paths of the ready items whose file
\* exists when the pass ends.
C9_ReturnsExistingPaths ==
    EndedAfterPolls =>
        /\ download_result.kind = "list"
        /\ download_result.paths = SelectSeq(to_download, LAMBDA f : Exists(files, f))

\* C16: a status poll answered with the maintenance page is the last request
\* of the call: no status GET and no download GET follows it, none was issued
\* before it either, no local file is created or deleted, and the call
\* returns no list of paths, whatever items the earlier polls collected.
C16_MaintenancePollEndsTheCall ==
    \A g \in DOMAIN getLog :
        (getLog[g].kind = "status" /\ getLog[g].sentinel) =>
            /\ g = Len(getLog)
            /\ \A h \in DOMAIN getLog : getLog[h].kind = "status"
            /\ pc = "done"
            /\ download_result.kind = "None"
            /\ files = files0
            /\ fileLog = <<>>

\* the second of three polls met the maintenance page, after the first had
\* collected a ready item whose file is missing
C16_Witness ==
    /\ pc = "done"
    /\ Len(getLog) = 2
    /\ getLog[2].sentinel
    /\ Len(wanted) = 3
    /\ \E k \in ReadyItems : files[to_download[k]] = Absent

StatusGets == { g \in DOMAIN getLog : getLog[g].kind = "status" }

\* the status GETs come first in the call, the g-th of them asks for the g-th
\* order id
StatusGetsInInputOrder ==
    /\ StatusGets = 1..n_polled
    /\ n_polled <= Len(wanted)
    /\ \A g \in 1..n_polled : getLog[g].orderId = wanted[g]

\* C23 as stated: one status GET per requested order id, in input order, all
\* of them before the first download GET: a call with order ids that has
\* ended has issued as many status GETs as it was given order ids.
C23_OneStatusGetPerOrderId ==
    /\ StatusGetsInInputOrder
    /\ (pc \in {"plan", "download_items", "done", "raised"} /\ Len(wanted) >= 1) =>
          n_polled = Len(wanted)

\* C23 as amended: status GETs are issued one at a time for the order ids in
\* input order and all before the first download GET; there is one for every
\* order id once the loop has gone through the list, which it does unless a
\* status response is the maintenance page or a 2xx body that is no JSON:
\* such a response ends the call with the order ids after it never asked for.
C23_StatusGetsInOrderBeforeDownloads ==
    /\ StatusGetsInInputOrder
    /\ (pc \in {"plan", "download_items"} \/ EndedAfterPolls) =>
          n_polled = Len(wanted)
    /\ Len(getLog) > n_polled => n_polled = Len(wanted)
    /\ (pc \in {"done", "raised"} /\ n_polled < Len(wanted)) =>
          download_result \in {[kind |-> "None", at |-> "maintenance"],
                               [kind |-> "JSONDecodeError"]}

\* three order ids, three status GETs, then a download GET
C23_Witness ==
    /\ pc = "done"
    /\ download_result.kind = "list"
    /\ Len(wanted) = 3
    /\ StatusGets = 1..3
    /\ \E g \in DOMAIN getLog : getLog[g].kind = "download"

WriteEntries(k) ==
    { e \in DOMAIN fileLog : fileLog[e].op = "write" /\ fileLog[e].item = k }

\* C27: a download GET answered with a content-type other than
\* application/zip writes nothing to the item's local path, which does not
\* exist afterwards until another item writes it; the loop goes on to the
\* next item, and the call ends only by returning its list after the last.
C27_NonZipIsSkipped ==
    \A g \in (n_polled + 1)..Len(getLog) :
        ~getLog[g].zip =>
            LET k == getLog[g].item
                local == Basename(getLog[g].url)
            IN
            /\ WriteEntries(k) = {}
            /\ (\A e \in DOMAIN fileLog :
                    fileLog[e].op = "write" => fileLog[e].name # local)
                  => files[local] = Absent
            /\ item_no > k
            /\ pc \in {"download_items", "done"}
            /\ pc = "done" => /\ download_result.kind = "list"
                              /\ item_no = Len(available_remote_files) + 1

\* the first item was no zip file, the second was fetched and written
C27_Witness ==
    /\ pc = "done"
    /\ \E g, h \in DOMAIN getLog :
          /\ getLog[g].kind = "download" /\ ~getLog[g].zip
          /\ getLog[h].kind = "download" /\ getLog[h].zip
          /\ getLog[h].item > getLog[g].item
          /\ WriteEntries(getLog[h].item) # {}
          /\ to_download[getLog[h].item] \in Range(download_result.paths)

\* a step in which a status GET is answered with a response that is not ok
FailedPollStep ==
    /\ Len(getLog') = Len(getLog) + 1
    /\ getLog'[Len(getLog')].kind = "status"
    /\ ~getLog'[Len(getLog')].ok

\* the items of the work list whose path no earlier item has and that was
\* not there when download was called
FirstOfNewPath(remote, local) ==
    { k \in DOMAIN remote :
        /\ ~Exists(files0, local[k])
        /\ \A j \in 1..(k - 1) : local[j] # local[k] }

\* C38: a status response that is not 2xx does not end download: it adds no
\* item and raises nothing, the order ids that remain are polled next, and
\* a call that comes to its return value has gone over every ready item
\* that was retained, with a GET for each one whose file was not there.
C38_FailedPollDoesNotEndCall ==
    /\ [][FailedPollStep =>
            /\ response_items' = response_items
            /\ download_result' = download_result
            /\ pc' = IF n_polled' < Len(wanted) THEN "poll" ELSE "plan"]_vars
    /\ [](pc = "done" /\ download_result.kind = "list" /\ Len(wanted) > 0 =>
            LET remote == available_remote_files
                local == [k \in DOMAIN remote |-> Basename(remote[k].url)]
            IN  /\ item_no = Len(remote) + 1
                /\ \A k \in FirstOfNewPath(remote, local) :
                      \E g \in DOMAIN getLog :
                          /\ getLog[g].kind = "download"
                          /\ getLog[g].item = k)

\* the poll of the first order failed, that of a later one brought a ready
\* item, and its file was fetched and is returned
C38_Witness ==
    /\ pc = "done"
    /\ download_result.kind = "list"
    /\ Len(download_result.paths) > 0
    /\ getLog[1].kind = "status" /\ ~getLog[1].ok
    /\ \E h \in DOMAIN getLog :
          /\ getLog[h].kind = "status" /\ getLog[h].ok
          /\ getLog[h].orderId # getLog[1].orderId
    /\ \E g \in DOMAIN getLog :
          /\ getLog[g].kind = "download" /\ getLog[g].zip
          /\ response_items[1].orderId # getLog[1].orderId

\* the items whose local file had another size than the manifest gives, was
\* removed, and whose GET was answered with something that is no zip file
LostItems ==
    { k \in 1..(item_no - 1) :
        /\ \E e \in DOMAIN fileLog :
              fileLog[e].op = "remove" /\ fileLog[e].item = k
        /\ \E g \in (n_polled + 1)..Len(getLog) :
              getLog[g].item = k /\ ~getLog[g].zip }

\* C40 as stated: when the local file of an item has the wrong size and the
\* GET that follows is answered with something other than application/zip,
\* the pass ends with no file at that path and download leaves the path out
\* of its return value.  A later ready item of the same file name can write
\* the path again.
C40_MismatchedFileGoneAfterNonZip ==
    pc = "done" /\ download_result.kind = "list" =>
        \A k \in LostItems :
            /\ files[to_download[k]] = Absent
            /\ to_download[k] \notin Range(download_result.paths)

\* C40: the file of the wrong size is removed before the content-type of
\* the response is looked at: a response that is no zip file leaves no file
\* at the path, nothing is written for the item, and unless a later item of
\* the same file name writes the path, the pass ends without the file and
\* download leaves the path out of its return value.
C40_MismatchedFileRemovedBeforeContentType ==
    /\ [][(pc = "download_items" /\ item_no' = item_no + 1
           /\ item_no \in LostItems') =>
             /\ files[to_download[item_no]] # Absent
             /\ files'[to_download[item_no]] = Absent]_vars
    /\ [](\A k \in LostItems :
            LET local == to_download[k]
                rewritten == \E e \in DOMAIN fileLog :
                                /\ fileLog[e].op = "write"
                                /\ fileLog[e].name = local
                                /\ fileLog[e].item > k
            IN  /\ WriteEntries(k) = {}
                /\ ~rewritten => files[local] = Absent
                /\ (pc = "done" /\ download_result.kind = "list" /\ ~rewritten) =>
                      local \notin Range(download_result.paths))

\* the first of two ready items had a local file of the wrong size and its
\* GET was answered with something that is no zip file; the second was
\* fetched, and download returned the path of the second only
C40_Witness ==
    /\ pc = "done"
    /\ download_result.kind = "list"
    /\ Len(to_download) = 2
    /\ to_download[1] # to_download[2]
    /\ LostItems = {1}
    /\ files0[to_download[1]] # Absent
    /\ files[to_download[1]] = Absent
    /\ download_result.paths = << to_download[2] >>

ReadyRetained ==
    { i \in DOMAIN response_items :
        response_items[i].status = "AVAILABLE_FOR_DOWNLOAD" }

C18_ReturnedFilesHaveManifestSize ==
    (pc = "done" /\ download_result.kind = "list") =>
        \A k \in ReadyItems :
            ( /\ files0[to_download[k]] = Absent
              /\ PathNotContested(k)
              /\ to_download[k] \in Range(download_result.paths) ) =>
                files[to_download[k]] = ExpectedSize(k)

----------------------------------------------------------------------------
(* EodmsAPI.download_dds and EodmsAPI._download_dds_item, with              *)
(* auth.acquire_token.  The calling thread submits one task per UUID to a   *)
(* ThreadPoolExecutor and collects the futures with as_completed; a worker  *)
(* thread runs _download_dds_item and takes a step at each request it       *)
(* makes.  A token is named by the requester it was issued to.              *)

\* the UUIDs of one call
MaxUuids == 2

\* the width of the worker pool
MaxWorkers == 2

\* the polling requests of one item the model follows
MaxDdsPolls == 2

UuidLists == { [i \in 1..n |-> 10 + i] : n \in 0..MaxUuids }

\* the token the AAA service issues to a requester: the calling thread is 0,
\* the worker of task t is t; token 0 is the one issued before the call
IssuedTo(who) == who + 1

Creds(token, access, refresh) ==
    [kind |-> "creds", access_token |-> token, access |-> access,
     refresh |-> refresh]

\* the token cache: no file, a file json.load or the key lookups reject, or
\* credentials whose access_expiration is ahead, behind or null
TokenFiles ==
    { [kind |-> "absent"], [kind |-> "malformed"] }
    \cup { Creds(0, "null", "valid"), Creds(0, "valid", "valid"),
           Creds(0, "expired", "valid"), Creds(0, "expired", "expired") }

\* auth.py lines 92-186: what acquire_token does with the cache it reads
AcquirePlan(file) ==
    CASE file.kind = "absent" -> "login"
      [] file.kind = "malformed" -> "ValueError"
      [] OTHER ->
           IF file.access = "null" THEN "cached"
           ELSE IF file.access = "expired"
                THEN (IF file.refresh = "valid" THEN "refresh" ELSE "login")
                ELSE "cached"

\* auth.py lines 129-132, 153-155, 176-179: a login returns the access token
\* it was issued; after a refresh the function reaches its end without a
\* return statement and returns None
AcquireReturns(plan, issued) == IF plan = "refresh" THEN NoToken ELSE issued

\* what the DDS may answer to the status GET of an item
DdsResponses ==
    { [ok |-> FALSE, status_code |-> 401, is_json |-> TRUE,  has_url |-> FALSE],
      [ok |-> FALSE, status_code |-> 401, is_json |-> FALSE, has_url |-> FALSE],
      [ok |-> FALSE, status_code |-> 404, is_json |-> TRUE,  has_url |-> FALSE],
      [ok |-> FALSE, status_code |-> 404, is_json |-> FALSE, has_url |-> FALSE],
      [ok |-> TRUE,  status_code |-> 200, is_json |-> TRUE,  has_url |-> TRUE],
      [ok |-> TRUE,  status_code |-> 200, is_json |-> TRUE,  has_url |-> FALSE],
      [ok |-> TRUE,  status_code |-> 200, is_json |-> FALSE, has_url |-> FALSE] }

\* the mutant: any parsed body is taken to hold a download_url
ParseBranchAlwaysReady(r) ==
    IF ~r.is_json THEN "json_error" ELSE "ready"

\* lines 513-517, 523-526: uuid_req.json() and the test of the while loop
ParseBranch(r) ==
    IF ~r.is_json THEN "json_error"
    ELSE IF r.has_url THEN "ready" ELSE "pending"

\* lines 503-512: only a 401 is looked at before the body is parsed
FirstStatusBranch(r) ==
    IF ~r.ok /\ r.status_code = 401 THEN "reacquire" ELSE ParseBranch(r)

\* lines 520-526
PollBranch(r) ==
    IF ~r.ok THEN "http_error" ELSE ParseBranch(r)

\* history of a task: the request, and of what came back the part the code
\* looks at: the first request is tested for a 401 only, the re-issued one
\* not at all, a polling request for r.ok
FirstStatusEvents(r) ==
    <<"status_get">> \o
    (IF FirstStatusBranch(r) = "reacquire" THEN <<"401">> ELSE <<>>)

PollEvents(r) ==
    <<"sleep", "status_get">> \o
    (IF r.ok THEN <<>>
     ELSE IF r.status_code = 401 THEN <<"401">> ELSE <<"not_ok">>)

ParsedEvents(r) ==
    IF ~r.is_json THEN <<"not_json">>
    ELSE IF r.has_url THEN <<"download_url">> ELSE <<"pending">>

Tasks == DOMAIN dds_items

TaskFinished(t) == dds_items[t].at \in {"done", "raised"}

TaskRunning(t) == dds_items[t].at \notin {"queued", "done", "raised"}

InAcquire(t) == dds_items[t].at \in {"acq_login", "acq_refresh"}

Count(seq, x) == Cardinality({ i \in DOMAIN seq : seq[i] = x })

\* the local path of the granule of a UUID
Local(uuid) == [granule |-> uuid]

Submitted ==
    [t \in 1..Len(uuids) |->
        [at |-> "queued", header |-> NoToken, events |-> <<>>, err |-> NoValue,
         local |-> "unknown"]]

\* a task takes a step; one that ends joins the completion order
TaskStep(t, rec) ==
    /\ dds_items' = [dds_items EXCEPT ![t] = rec]
    /\ completion' = IF rec.at \in {"done", "raised"}
                     THEN Append(completion, t) ELSE completion

\* lines 513-517: the body is parsed, whatever the status of the response
Parsed(rec, r, t) ==
    LET rec1 == [rec EXCEPT !.events = @ \o ParsedEvents(r)] IN
    CASE ParseBranch(r) = "json_error" ->
           [rec1 EXCEPT !.at = "raised",
                        !.err = [kind |-> "HTTPError", what |-> "JSONDecodeError",
                                 uuid |-> uuids[t]]]
      [] ParseBranch(r) = "ready" -> [rec1 EXCEPT !.at = "ready"]
      [] OTHER -> [rec1 EXCEPT !.at = "polling"]

\* the mutant: a lock around the token refresh
MayEnterAcquireSingleFlight(t) == \A j \in Tasks \ {t} : ~InAcquire(j)

\* lines 503-510: nothing guards the call of acquire_token
MayEnterAcquire(t) == TRUE

\* lines 496-517: a worker takes the next queued task, builds the header from
\* the shared token and issues the first status GET
DdsItemFirstStatus(t, r) ==
    /\ t \in Tasks
    /\ dds_items[t].at = "queued"
    /\ \A j \in 1..(t - 1) : dds_items[j].at # "queued"
    /\ Cardinality({ j \in Tasks : TaskRunning(j) }) < n_workers
    /\ LET rec == [dds_items[t] EXCEPT !.header = dds_access_token,
                                       !.events = FirstStatusEvents(r)]
       IN  IF FirstStatusBranch(r) = "reacquire"
           THEN TaskStep(t, [rec EXCEPT !.at = "acquire"])
           ELSE TaskStep(t, Parsed(rec, r, t))
    /\ UNCHANGED <<pc, uuids, n_workers, dds_access_token, token_file, early,
                   yielded, dds_result, tokenLog, outsideDds>>

\* lines 506-511 and auth.py lines 90-106, 182-184: the worker enters
\* acquire_token and reads the cache; a cached token comes back at once and
\* is assigned to the shared attribute
DdsAcquireRead(t) ==
    /\ t \in Tasks
    /\ dds_items[t].at = "acquire"
    /\ MayEnterAcquire(t)
    /\ LET plan == AcquirePlan(token_file)
           rec == [dds_items[t] EXCEPT !.events = @ \o <<"acquire_token">>]
           read == [who |-> t, op |-> "read"]
       IN  CASE plan = "cached" ->
                  /\ dds_access_token' = token_file.access_token
                  /\ tokenLog' = tokenLog \o <<read, [who |-> t, op |-> "assign"]>>
                  /\ TaskStep(t, [rec EXCEPT !.at = "retry",
                                            !.header = token_file.access_token,
                                            !.events = @ \o <<"assign_token">>])
             [] plan = "ValueError" ->
                  /\ tokenLog' = Append(tokenLog, read)
                  /\ TaskStep(t, [rec EXCEPT !.at = "raised",
                                            !.err = [kind |-> "ValueError"]])
                  /\ UNCHANGED dds_access_token
             [] OTHER ->
                  /\ tokenLog' = Append(tokenLog, read)
                  /\ TaskStep(t, [rec EXCEPT !.at = IF plan = "login"
                                                   THEN "acq_login"
                                                   ELSE "acq_refresh"])
                  /\ UNCHANGED dds_access_token
    /\ UNCHANGED <<pc, uuids, n_workers, token_file, early, yielded, dds_result,
                   outsideDds>>

\* auth.py lines 111-134, 138-181 and lines 507-511: the login or refresh
\* request is answered; new credentials are written to the cache and the
\* token is assigned to the shared attribute
DdsAcquireRespond(t, ok, is_json) ==
    /\ t \in Tasks
    /\ InAcquire(t)
    /\ ~ok => ~is_json
    /\ IF ok /\ is_json
       THEN /\ token_file' = Creds(IssuedTo(t), "valid", "valid")
            /\ dds_access_token' =
                  AcquireReturns(IF dds_items[t].at = "acq_refresh"
                                 THEN "refresh" ELSE "login", IssuedTo(t))
            /\ tokenLog' = tokenLog \o <<[who |-> t, op |-> "write"],
                                         [who |-> t, op |-> "assign"]>>
            /\ TaskStep(t, [dds_items[t] EXCEPT
                               !.at = "retry",
                               !.header = dds_access_token',
                               !.events = @ \o <<"write_token_file", "assign_token">>])
       ELSE /\ TaskStep(t, [dds_items[t] EXCEPT
                               !.at = "raised",
                               !.err = [kind |-> "HTTPError", what |-> "token"]])
            /\ UNCHANGED <<token_file, dds_access_token, tokenLog>>
    /\ UNCHANGED <<pc, uuids, n_workers, early, yielded, dds_result, outsideDds>>

\* lines 512-517: the status GET is issued again with the new header; its
\* status is not looked at
DdsItemRetry(t, r) ==
    /\ t \in Tasks
    /\ dds_items[t].at = "retry"
    /\ TaskStep(t, Parsed([dds_items[t] EXCEPT !.events = @ \o <<"status_get">>],
                          r, t))
    /\ UNCHANGED <<pc, uuids, n_workers, dds_access_token, token_file, early,
                   yielded, dds_result, tokenLog, outsideDds>>

\* lines 517-526: sleep(5) and the next status GET
DdsItemPoll(t, r) ==
    /\ t \in Tasks
    /\ dds_items[t].at = "polling"
    /\ Count(dds_items[t].events, "sleep") < MaxDdsPolls
    /\ LET rec == [dds_items[t] EXCEPT !.events = @ \o PollEvents(r)]
       IN  IF PollBranch(r) = "http_error"
           THEN TaskStep(t, [rec EXCEPT
                                !.at = "raised",
                                !.err = [kind |-> "HTTPError", what |-> "Problem",
                                         uuid |-> uuids[t]]])
           ELSE TaskStep(t, Parsed(rec, r, t))
    /\ UNCHANGED <<pc, uuids, n_workers, dds_access_token, token_file, early,
                   yielded, dds_result, tokenLog, outsideDds>>

\* what the worker finds at the local path of the granule: no file, a file
\* of the size the HEAD response reports, a file of another size, or a file
\* while the HEAD response has no Content-Length header
LocalStates == {"missing", "same", "differs", "no_length"}

\* the mutant: a file of the right size is fetched again all the same
FetchOpsRefetchAlways(local) ==
    IF local = "missing" THEN <<"open", "content_get">>
    ELSE IF local = "no_length" THEN <<"head">>
    ELSE <<"head", "remove", "open", "content_get">>

\* lines 533-559: the requests and file operations of the download step
FetchOps(local) ==
    IF local = "missing" THEN <<"open", "content_get">>
    ELSE IF local = "same" THEN <<"head">>
    ELSE IF local = "differs" THEN <<"head", "remove", "open", "content_get">>
    ELSE <<"head">>

\* lines 527-560: the granule is there with the size HEAD reports, or it is
\* removed, opened and streamed; int(None) raises TypeError when the HEAD
\* response has no Content-Length
DdsItemFetch(t, local) ==
    /\ t \in Tasks
    /\ dds_items[t].at = "ready"
    /\ LET rec == [dds_items[t] EXCEPT !.local = local,
                                       !.events = @ \o FetchOps(local)]
       IN  IF local = "no_length"
           THEN TaskStep(t, [rec EXCEPT !.at = "raised",
                                        !.err = [kind |-> "TypeError"]])
           ELSE TaskStep(t, [rec EXCEPT !.at = "done"])
    /\ UNCHANGED <<pc, uuids, n_workers, dds_access_token, token_file, early,
                   yielded, dds_result, tokenLog, outsideDds>>

\* lines 574-595: the collection check, the token of a first call (taken on
\* the calling thread) and the submission of the tasks
DdsBegin(auth_ok) ==
    /\ pc = "download_dds"
    /\ LET plan == AcquirePlan(token_file)
           read == [who |-> 0, op |-> "read"]
           submit == /\ dds_items' = Submitted
                     /\ pc' = "dds_submitted"
                     /\ UNCHANGED dds_result
       IN  IF collection # "RCMImageProducts"
           THEN /\ pc' = "raised"
                /\ dds_result' = [kind |-> "NotImplementedError"]
                /\ UNCHANGED <<dds_access_token, token_file, dds_items, tokenLog>>
           ELSE IF dds_access_token # NoToken
           THEN /\ submit
                /\ UNCHANGED <<dds_access_token, token_file, tokenLog>>
           ELSE CASE plan = "cached" ->
                       /\ dds_access_token' = token_file.access_token
                       /\ tokenLog' = tokenLog \o <<read, [who |-> 0, op |-> "assign"]>>
                       /\ submit
                       /\ UNCHANGED token_file
                  [] plan = "ValueError" ->
                       /\ pc' = "raised"
                       /\ dds_result' = [kind |-> "ValueError"]
                       /\ tokenLog' = Append(tokenLog, read)
                       /\ UNCHANGED <<dds_access_token, token_file, dds_items>>
                  [] OTHER ->
                       IF auth_ok
                       THEN /\ token_file' = Creds(IssuedTo(0), "valid", "valid")
                            /\ dds_access_token' = AcquireReturns(plan, IssuedTo(0))
                            /\ tokenLog' = tokenLog \o
                                  <<read, [who |-> 0, op |-> "write"],
                                    [who |-> 0, op |-> "assign"]>>
                            /\ submit
                       ELSE /\ pc' = "raised"
                            /\ dds_result' = [kind |-> "HTTPError", what |-> "token"]
                            /\ tokenLog' = Append(tokenLog, read)
                            /\ UNCHANGED <<dds_access_token, token_file, dds_items>>
    /\ UNCHANGED <<uuids, n_workers, completion, early, yielded, outsideDds>>

\* line 597: as_completed begins: the futures already finished are put aside
\* as a set, to be yielded first
DdsAsCompleted ==
    /\ pc = "dds_submitted"
    /\ early' = { t \in Tasks : TaskFinished(t) }
    /\ pc' = "dds_collect"
    /\ UNCHANGED <<uuids, n_workers, dds_access_token, token_file, dds_items,
                   completion, yielded, dds_result, tokenLog, outsideDds>>

\* the mutant: the futures are taken in the order they were submitted
NextYieldInputOrder(t) ==
    /\ t = Len(yielded) + 1
    /\ TaskFinished(t)

\* as_completed: the futures put aside come first, in the order the set
\* iterates; then each other future when it finishes
NextYield(t) ==
    /\ t \notin Range(yielded)
    /\ TaskFinished(t)
    /\ IF early \ Range(yielded) # {}
       THEN t \in early
       ELSE \A i, j \in DOMAIN completion :
               (completion[j] = t /\ i < j) => completion[i] \in Range(yielded)

\* the mutant: leaving the with block does not wait for the workers
ShutdownMayReturnNoWait == TRUE

\* line 584: leaving the with block is executor.shutdown(wait=True), which
\* returns when every task submitted has run
ShutdownMayReturn == \A t \in Tasks : TaskFinished(t)

ResultsOf(seq) == [i \in DOMAIN seq |-> Local(uuids[seq[i]])]

\* lines 597-599: the next future, and its result or its exception
DdsCollect(t) ==
    /\ pc = "dds_collect"
    /\ t \in Tasks
    /\ NextYield(t)
    /\ yielded' = Append(yielded, t)
    /\ IF dds_items[t].at = "raised"
       THEN /\ pc' = "dds_unwind"
            /\ dds_result' = dds_items[t].err
       ELSE UNCHANGED <<pc, dds_result>>
    /\ UNCHANGED <<uuids, n_workers, dds_access_token, token_file, dds_items,
                   completion, early, tokenLog, outsideDds>>

\* lines 584, 600: every future gave its result
DdsReturn ==
    /\ pc = "dds_collect"
    /\ Len(yielded) = Len(uuids)
    /\ ShutdownMayReturn
    /\ dds_result' = [kind |-> "list", paths |-> ResultsOf(yielded)]
    /\ pc' = "done"
    /\ UNCHANGED <<uuids, n_workers, dds_access_token, token_file, dds_items,
                   completion, early, yielded, tokenLog, outsideDds>>

\* line 584: the exception of a future leaves the with block
DdsUnwound ==
    /\ pc = "dds_unwind"
    /\ ShutdownMayReturn
    /\ pc' = "raised"
    /\ UNCHANGED <<ddsVars, outsideDds>>

DdsInit ==
    /\ pc = "download_dds"
    /\ collection \in {"RCMImageProducts", "Radarsat1"}
    /\ ClientIdle
    /\ SearchIdle
    /\ MetaIdle
    /\ OrderIdle
    /\ DownloadIdle
    /\ uuids \in UuidLists
    /\ n_workers \in 1..MaxWorkers
    /\ dds_access_token \in {NoToken, 0}
    /\ token_file \in TokenFiles
    /\ dds_items = <<>>
    /\ completion = <<>>
    /\ early = {}
    /\ yielded = <<>>
    /\ dds_result = NoValue
    /\ tokenLog = <<>>
    /\ HelpersIdle

DdsNext ==
    \/ \E auth_ok \in BOOLEAN : DdsBegin(auth_ok)
    \/ \E t \in Tasks, r \in DdsResponses : DdsItemFirstStatus(t, r)
    \/ \E t \in Tasks : DdsAcquireRead(t)
    \/ \E t \in Tasks, ok \in BOOLEAN, is_json \in BOOLEAN :
          DdsAcquireRespond(t, ok, is_json)
    \/ \E t \in Tasks, r \in DdsResponses : DdsItemRetry(t, r)
    \/ \E t \in Tasks, r \in DdsResponses : DdsItemPoll(t, r)
    \/ \E t \in Tasks, local \in LocalStates : DdsItemFetch(t, local)
    \/ DdsAsCompleted
    \/ \E t \in Tasks : DdsCollect(t)
    \/ DdsReturn
    \/ DdsUnwound

SpecDds == DdsInit /\ [][DdsNext]_vars

\* a call with one UUID: the flow of one item, with no other worker about
DdsItemInit ==
    /\ DdsInit
    /\ Len(uuids) = 1
    /\ n_workers = 1

SpecDdsItem == DdsItemInit /\ [][DdsNext]_vars

----------------------------------------------------------------------------
(* Claims about the DDS channel *)

Pos(seq, x) == CHOOSE i \in DOMAIN seq : seq[i] = x

Events(t) == dds_items[t].events

FileOps == {"head", "remove", "open", "content_get"}

\* C21 as stated: when every item succeeds, download_dds returns one path
\* per input UUID, in the order in which the tasks completed.
C21_ReturnsInCompletionOrder ==
    (pc = "done" /\ dds_result.kind = "list") =>
        dds_result.paths = ResultsOf(completion)

\* C21 as amended: one path per input UUID, in the order as_completed yields
\* the futures: two tasks are reported in the order they completed unless
\* both had completed before as_completed began, and the order of the input
\* plays no part.
C21_ReturnsInYieldOrder ==
    (pc = "done" /\ dds_result.kind = "list") =>
        /\ Len(dds_result.paths) = Len(uuids)
        /\ dds_result.paths = ResultsOf(yielded)
        /\ Range(yielded) = Tasks
        /\ \A i, j \in DOMAIN yielded :
              i < j =>
                 \/ yielded[i] \in early /\ yielded[j] \in early
                 \/ Pos(completion, yielded[i]) < Pos(completion, yielded[j])

\* both items succeeded after as_completed began, the second one first
C21_Witness ==
    /\ pc = "done"
    /\ dds_result.kind = "list"
    /\ Len(uuids) = 2
    /\ early = {}
    /\ completion = <<2, 1>>
    /\ dds_result.paths = <<Local(uuids[2]), Local(uuids[1])>>

\* C22: the first 401 an item gets on a status request, be it the first
\* request or a polling request, is followed by one call of acquire_token and
\* the request issued again; acquire_token is called at most once per item.
C22_Any401ReacquiresOnce ==
    \A t \in Tasks :
        /\ Count(Events(t), "acquire_token") <= 1
        /\ \A i \in DOMAIN Events(t) :
              ( /\ Events(t)[i] = "401"
                /\ \A j \in 1..(i - 1) : Events(t)[j] # "acquire_token" ) =>
                  IF i = Len(Events(t))
                  THEN dds_items[t].at = "acquire"
                  ELSE Events(t)[i + 1] = "acquire_token"

\* C28: nothing coordinates the token refresh of the workers: a worker that
\* got a 401 can enter acquire_token whatever the other workers are doing,
\* and one that is waiting for the login or refresh response can go on to
\* rewrite the cache and assign the shared token.
C28_TokenRefreshUncoordinated ==
    \A t \in Tasks :
        /\ dds_items[t].at = "acquire" => ENABLED DdsAcquireRead(t)
        /\ InAcquire(t) => ENABLED DdsAcquireRespond(t, TRUE, TRUE)

\* two workers that both got a 401 were inside acquire_token at the same
\* time: each read the cache before the other rewrote it, each rewrote it
\* and each assigned the shared token
C28_Witness ==
    /\ n_workers >= 2
    /\ \E t, u \in Tasks :
          /\ t # u
          /\ \A w \in {t, u} :
                /\ Count(Events(w), "401") >= 1
                /\ \A op \in {"read", "write", "assign"} :
                      [who |-> w, op |-> op] \in Range(tokenLog)
          /\ Pos(tokenLog, [who |-> t, op |-> "read"])
                < Pos(tokenLog, [who |-> u, op |-> "write"])
          /\ Pos(tokenLog, [who |-> u, op |-> "read"])
                < Pos(tokenLog, [who |-> t, op |-> "write"])

\* C29: once the tasks are dispatched, download_dds neither returns nor
\* raises before every task has run to its end: none is left queued or
\* running, none is cancelled.
C29_CallEndsAfterEveryTask ==
    (pc \in {"done", "raised"} /\ dds_items # <<>>) =>
        \A t \in Tasks :
            /\ TaskFinished(t)
            /\ Events(t) # <<>>

\* the call raised the error of the first task; the second task ran to its
\* end after the first had raised
C29_Witness ==
    /\ pc = "raised"
    /\ Len(uuids) = 2
    /\ n_workers = 1
    /\ yielded = <<1>>
    /\ dds_items[1].at = "raised"
    /\ dds_result = dds_items[1].err
    /\ dds_items[2].at = "done"
    /\ completion = <<1, 2>>

\* C30: an item's HEAD request, file deletion and content transfer come
\* after a status response with a download_url; a polling request is only
\* made after a body without it, and however many were made the item is
\* still polling; a polling response that is not 2xx or not JSON ends the
\* item with an HTTPError naming the UUID.
C30_NothingFetchedBeforeDownloadUrl ==
    \A t \in Tasks :
        LET e == Events(t) IN
        /\ \A i \in DOMAIN e :
              /\ e[i] \in FileOps => \E j \in 1..(i - 1) : e[j] = "download_url"
              /\ e[i] = "sleep" => (i > 1 /\ e[i - 1] = "pending")
              /\ (e[i] \in {"401", "not_ok", "not_json"}
                    /\ \E j \in 1..(i - 1) : e[j] = "sleep") =>
                    /\ i = Len(e)
                    /\ dds_items[t].at = "raised"
                    /\ dds_items[t].err.kind = "HTTPError"
                    /\ dds_items[t].err.uuid = uuids[t]
        /\ dds_items[t].at = "polling" =>
              /\ dds_items[t].err = NoValue
              /\ Count(e, "download_url") = 0
              /\ e[Len(e)] = "pending"

\* an item polled as often as the model follows, then got its download_url,
\* found a local file of another size and fetched the granule again
C30_Witness ==
    \E t \in Tasks :
        /\ dds_items[t].at = "done"
        /\ Count(Events(t), "sleep") = MaxDdsPolls
        /\ Count(Events(t), "download_url") = 1
        /\ Count(Events(t), "remove") = 1
        /\ Count(Events(t), "content_get") = 1

----------------------------------------------------------------------------
(* Claims about the download step of a DDS item *)

\* the events of a task after its download_url was seen
AfterUrl(t) ==
    LET e == Events(t)
        u == Pos(e, "download_url")
    IN  SubSeq(e, u + 1, Len(e))

\* C31: once the download URL is known, a local file of the size the HEAD
\* response reports is returned after the HEAD request alone, with no content
\* GET and the file neither removed nor opened; a local file of another size
\* is removed and fetched with exactly one content GET; without a local file
\* there is no HEAD request, only the fetch.
C31_DdsLocalFileCheck ==
    \A t \in Tasks :
        dds_items[t].local # "unknown" =>
            /\ dds_items[t].local = "same" =>
                  /\ AfterUrl(t) = <<"head">>
                  /\ dds_items[t].at = "done"
            /\ dds_items[t].local = "differs" =>
                  /\ AfterUrl(t) = <<"head", "remove", "open", "content_get">>
                  /\ dds_items[t].at = "done"
            /\ dds_items[t].local = "missing" =>
                  /\ AfterUrl(t) = <<"open", "content_get">>
                  /\ dds_items[t].at = "done"
            /\ Count(Events(t), "head") > 0 => dds_items[t].local # "missing"

\* the call returned the path of a granule that was there with the right size
C31_Witness ==
    /\ pc = "done"
    /\ dds_result.kind = "list"
    /\ Len(dds_result.paths) = 1
    /\ dds_items[1].local = "same"
    /\ Count(Events(1), "head") = 1

----------------------------------------------------------------------------
(* Claims about acquire_token, as download_dds and its workers call it *)

\* what a step adds to the history of the token cache
Added == SubSeq(tokenLog', Len(tokenLog) + 1, Len(tokenLog'))

\* every decision of a call comes after its read of the cache
ReadFirst ==
    \A i \in DOMAIN tokenLog' :
        tokenLog'[i].op # "read" =>
            \E j \in 1..(i - 1) :
                tokenLog'[j] = [who |-> tokenLog'[i].who, op |-> "read"]

\* a login or refresh that succeeds writes the new credentials to the cache
\* and the caller assigns what the call returns; every other call leaves the
\* cache as it is
WrittenOnSuccessOnly ==
    /\ \A i \in DOMAIN Added :
          Added[i].op = "write" =>
              /\ token_file' = Creds(IssuedTo(Added[i].who), "valid", "valid")
              /\ i < Len(Added)
              /\ Added[i + 1] = [who |-> Added[i].who, op |-> "assign"]
    /\ (\A i \in DOMAIN Added : Added[i].op # "write") => token_file' = token_file

\* C36: acquire_token reads the cache before any decision; every login or
\* refresh that succeeds overwrites the cache with the tokens just issued
\* and then returns the new access token; a call that returns a cached
\* token or fails leaves the cache unchanged.
C36_CacheWrittenThenTokenReturned ==
    [][ /\ ReadFirst
        /\ WrittenOnSuccessOnly
        /\ \A i \in DOMAIN Added :
              Added[i].op = "write" => dds_access_token' = token_file'.access_token
      ]_vars

\* the parts of C36 about the cache file hold: read first, written by a
\* successful login or refresh and by nothing else
C36_CacheReadFirstWrittenOnSuccessOnly ==
    [][ReadFirst /\ WrittenOnSuccessOnly]_vars

\* a worker refreshed the token: the cache holds the new token and the
\* shared attribute holds None
C36_RefreshReturnsNone ==
    /\ \E t \in Tasks :
          /\ Count(Events(t), "write_token_file") = 1
          /\ dds_items[t].at = "retry"
          /\ dds_items[t].header = NoToken
    /\ token_file.kind = "creds"
    /\ token_file.access_token # NoToken
    /\ dds_access_token = NoToken

\* a call that finds a cache whose access expiry is ahead or null hands back
\* the cached access token at once: no request, no write
CachedTokenNoRequest ==
    /\ \A t \in Tasks :
          dds_items[t].at = "acquire" /\ dds_items'[t].at # "acquire"
          /\ AcquirePlan(token_file) = "cached" =>
              /\ dds_items'[t].at = "retry"
              /\ dds_items'[t].header = token_file.access_token
              /\ dds_access_token' = token_file.access_token
              /\ token_file' = token_file
    /\ pc = "download_dds" /\ pc' = "dds_submitted" /\ dds_access_token = NoToken
       /\ AcquirePlan(token_file) = "cached" =>
              /\ dds_access_token' = token_file.access_token
              /\ token_file' = token_file

\* C37: a cache whose access expiry is ahead of the clock, or null, makes
\* acquire_token return the cached token without a request to the AAA
\* service; so the request a worker issues again after a 401 carries another
\* token than the rejected one only if the expiry the cache records has
\* passed.
C37_RetryTokenDiffersOnlyAfterExpiry ==
    [][ /\ CachedTokenNoRequest
        /\ \A t \in Tasks :
              dds_items[t].at = "acquire" /\ dds_items'[t].at = "retry"
              /\ dds_items'[t].header # dds_items[t].header =>
                  /\ token_file.kind = "creds"
                  /\ token_file.access = "expired"
      ]_vars

\* the first part of C37 holds
C37_CachedTokenReturnedWithoutRequest == [][CachedTokenNoRequest]_vars

\* a worker whose request was rejected took from an unexpired cache a token
\* other than the one rejected
C37_CachedTokenDiffers ==
    \E t \in Tasks :
        /\ dds_items[t].at = "retry"
        /\ Count(Events(t), "write_token_file") = 0
        /\ token_file.kind = "creds"
        /\ token_file.access = "valid"
        /\ dds_items[t].header = token_file.access_token
        /\ tokenLog[Len(tokenLog)] = [who |-> t, op |-> "assign"]
        /\ \E i \in DOMAIN tokenLog : tokenLog[i] = [who |-> 0, op |-> "write"]

----------------------------------------------------------------------------
(* EodmsAPI._extract_download_metadata, followed on its own.  A text is a   *)
(* sequence of characters; the separator '&file=' and an HTML tag each      *)
(* stand as one character.                                                 *)

\* the longest destination descriptor
MaxTextLen == 4

\* the longest manifest key
MaxKeyLen == 3

PathChars == {"h", "f", "/"}

TextChars == PathChars \cup {"&file=", "<a>"}

Strings(chars, n) == UNION { [1..k -> chars] : k \in 0..n }

\* lines 603-611: EODMSHTMLFilter keeps the data between the tags
FilterText(s) == SelectSeq(s, LAMBDA c : c # "<a>")

StartsAt(s, sep, i) ==
    /\ i + Len(sep) - 1 <= Len(s)
    /\ SubSeq(s, i, i + Len(sep) - 1) = sep

Occurrences(s, sep) == { i \in 1..Len(s) : StartsAt(s, sep, i) }

\* str.split(sep) for a separator that is not empty
RECURSIVE Split(_, _)
Split(s, sep) ==
    IF Occurrences(s, sep) = {} THEN << s >>
    ELSE LET i == CHOOSE k \in Occurrences(s, sep) :
                      \A j \in Occurrences(s, sep) : k <= j
         IN  << SubSeq(s, 1, i - 1) >> \o
             Split(SubSeq(s, i + Len(sep), Len(s)), sep)

DigitValue == ("0" :> 0) @@ ("1" :> 1) @@ ("2" :> 2)

IsNumber(v) == v # <<>> /\ \A i \in DOMAIN v : v[i] \in DOMAIN DigitValue

\* int(v) of a text of digits
RECURSIVE ToInt(_)
ToInt(v) ==
    IF v = <<>> THEN 0
    ELSE 10 * ToInt(SubSeq(v, 1, Len(v) - 1)) + DigitValue[v[Len(v)]]

\* the sizes a manifest gives: two numbers and a text int() rejects
ManifestValues == { <<"7">>, <<"1", "2">>, <<"x">> }

\* a manifest lists its [key, value] entries in the order of the JSON body
Manifests ==
    { <<>> }
    \cup { << [key |-> k, value |-> v] >> :
              k \in Strings(PathChars, MaxKeyLen), v \in ManifestValues }
    \cup { << [key |-> <<"f">>, value |-> <<"7">>], [key |-> k, value |-> <<"1", "2">>] >> :
              k \in Strings(PathChars, MaxKeyLen) \ { <<"f">> } }

ItemsToExtract ==
    [destination : Strings(TextChars, MaxTextLen), manifest : Manifests]

\* line 330: list(item['manifest'].keys()).pop()
LastKey(manifest) == manifest[Len(manifest)].key

\* line 331: manifest_key.split('/')[0]
ManifestHash(manifest_key) == Split(manifest_key, << "/" >>)[1]

\* the mutant: the URL is kept as the server sent it
RepairedUrlKept(text, manifest_key) == Split(text, << "&file=" >>)[1]

\* lines 325-336: the URL cut at '&file=', kept when the hash followed by
\* what comes after its last occurrence is the manifest key, and otherwise
\* what comes before its first occurrence followed by the manifest key
RepairedUrl(text, manifest_key) ==
    LET url == Split(text, << "&file=" >>)[1]
        split_url == Split(url, ManifestHash(manifest_key))
    IN  IF ManifestHash(manifest_key) \o split_url[Len(split_url)] = manifest_key
        THEN url
        ELSE split_url[1] \o manifest_key

\* lines 312-340: pop() raises on an empty manifest, split on an empty
\* separator and int() on a text that is no number
ExtractCall ==
    /\ pc = "extract_download_metadata"
    /\ LET manifest == order_item.manifest
           text == FilterText(order_item.destination)
       IN  IF manifest = <<>>
           THEN extracted' = [kind |-> "IndexError"]
           ELSE IF ManifestHash(LastKey(manifest)) = <<>>
           THEN extracted' = [kind |-> "ValueError", what |-> "empty separator"]
           ELSE IF ~IsNumber(manifest[Len(manifest)].value)
           THEN extracted' = [kind |-> "ValueError", what |-> "int"]
           ELSE extracted' = [kind |-> "returned",
                              url |-> RepairedUrl(text, LastKey(manifest)),
                              fsize |-> ToInt(manifest[Len(manifest)].value)]
    /\ pc' = IF extracted'.kind = "returned" THEN "done" ELSE "raised"
    /\ UNCHANGED <<order_item, keys, response, metadata, collection, clientVars,
                   searchVars, metaVars, orderVars, downloadVars, ddsVars>>

ExtractInit ==
    /\ pc = "extract_download_metadata"
    /\ collection = "Radarsat1"
    /\ ClientIdle
    /\ SearchIdle
    /\ MetaIdle
    /\ OrderIdle
    /\ DownloadIdle
    /\ DdsIdle
    /\ order_item \in ItemsToExtract
    /\ extracted = NoValue
    /\ keys = <<>>
    /\ response = NoValue
    /\ metadata = NoValue

ExtractNext == ExtractCall

SpecExtract == ExtractInit /\ [][ExtractNext]_vars

----------------------------------------------------------------------------
(* Claims about _extract_download_metadata *)

EndsWith(s, tail) ==
    /\ Len(tail) <= Len(s)
    /\ SubSeq(s, Len(s) - Len(tail) + 1, Len(s)) = tail

\* the URL the repair starts from
CutUrl == Split(FilterText(order_item.destination), << "&file=" >>)[1]

\* C34: for every order item the URL _extract_download_metadata returns ends
\* with the manifest key of the item, and the size it returns is the
\* manifest value of that key.
C34_UrlEndsWithManifestKey ==
    extracted.kind = "returned" =>
        /\ EndsWith(extracted.url, LastKey(order_item.manifest))
        /\ extracted.fsize = ToInt(order_item.manifest[Len(order_item.manifest)].value)

\* the URL returned ends with the manifest key whenever the hash occurs in
\* the URL of the descriptor, and whenever that URL neither is empty nor
\* begins with '/'
C34_EndsWithKeyWhenHashInUrl ==
    extracted.kind = "returned" =>
        LET manifest_key == LastKey(order_item.manifest) IN
        (\/ Occurrences(CutUrl, ManifestHash(manifest_key)) # {}
         \/ (CutUrl # <<>> /\ CutUrl[1] # "/"))
            => EndsWith(extracted.url, manifest_key)

\* a URL that holds the hash followed by another file name was repaired
C34_Repaired ==
    /\ extracted.kind = "returned"
    /\ Occurrences(CutUrl, ManifestHash(LastKey(order_item.manifest))) # {}
    /\ extracted.url # CutUrl
    /\ Len(LastKey(order_item.manifest)) = 3


----------------------------------------------------------------------------
(* EodmsAPI._fetch_single_record_metadata, followed on its own.  A value   *)
(* of the detail response is named by the place it stands at.              *)

\* the longest metadata list of a detail response
MaxPairs == 3

\* the fields generate_meta_keys may ask for
MetaFields == {"Beam Mnemonic", "Start Date"}

\* the requested fields: a list without repetition
KeyLists ==
    { ks \in Strings(MetaFields, Cardinality(MetaFields)) :
         \A i, j \in DOMAIN ks : i # j => ks[i] # ks[j] }

TopLevelKeys == MetaFields \cup {"thumbnailUrl", "geometry"}

\* the [key, value] pairs of response['metadata']
PairLists ==
    { [i \in DOMAIN ks |-> << ks[i], [from |-> "metadata", at |-> i] >>] :
         ks \in Strings(MetaFields \cup {"Metadata Full Name"}, MaxPairs) }

\* what the detail GET may be answered with
DetailResponses ==
    { [kind |-> "not_ok"], [kind |-> "not_json"] }
    \cup { [kind |-> "json",
            top |-> [k \in present |-> [from |-> "top", at |-> k]],
            has_metadata |-> TRUE,
            metadata |-> pairs] :
              present \in SUBSET TopLevelKeys, pairs \in PairLists }
    \cup { [kind |-> "json",
            top |-> [k \in present |-> [from |-> "top", at |-> k]],
            has_metadata |-> FALSE,
            metadata |-> <<>>] : present \in SUBSET TopLevelKeys }

Matching(pairs, k) == { i \in DOMAIN pairs : pairs[i][1] = k }

\* [f[1] for f in response['metadata'] if f[0] == k][0]
FirstMatch(r, k) ==
    IF ~r.has_metadata THEN [ok |-> FALSE, err |-> "KeyError"]
    ELSE IF Matching(r.metadata, k) = {} THEN [ok |-> FALSE, err |-> "IndexError"]
    ELSE [ok |-> TRUE,
          value |-> r.metadata[CHOOSE i \in Matching(r.metadata, k) :
                                  \A j \in Matching(r.metadata, k) : i <= j][2]]

\* the mutant: the metadata list is looked at first
FieldValueListFirst(r, k) ==
    IF r.has_metadata /\ Matching(r.metadata, k) # {} THEN FirstMatch(r, k)
    ELSE IF k \in DOMAIN r.top THEN [ok |-> TRUE, value |-> r.top[k]]
    ELSE FirstMatch(r, k)

\* lines 224-229: response[k], and on KeyError the metadata list
FieldValue(r, k) ==
    IF k \in DOMAIN r.top THEN [ok |-> TRUE, value |-> r.top[k]]
    ELSE FirstMatch(r, k)

\* metadata[k] = v
DictSet(d, k, v) == [x \in DOMAIN d \cup {k} |-> IF x = k THEN v ELSE d[x]]

\* lines 223-229: the loop over the keys; the first lookup that raises ends it
RECURSIVE RecordFields(_, _, _)
RecordFields(ks, r, d) ==
    IF ks = <<>> THEN [ok |-> TRUE, value |-> d]
    ELSE IF ~FieldValue(r, Head(ks)).ok THEN FieldValue(r, Head(ks))
    ELSE RecordFields(Tail(ks), r, DictSet(d, Head(ks), FieldValue(r, Head(ks)).value))

\* lines 233-242: the uuid of an RCM record, the thumbnail and the footprint
RecordRest(r, d) ==
    LET uuid == FirstMatch(r, "Metadata Full Name")
        d1 == IF collection = "RCMImageProducts"
              THEN DictSet(d, "uuid", [last_segment_of |-> uuid.value])
              ELSE d
    IN  IF collection = "RCMImageProducts" /\ ~uuid.ok THEN uuid
        ELSE IF "thumbnailUrl" \notin DOMAIN r.top \/ "geometry" \notin DOMAIN r.top
        THEN [ok |-> FALSE, err |-> "KeyError"]
        ELSE [ok |-> TRUE,
              value |-> DictSet(DictSet(d1, "thumbnailUrl", r.top["thumbnailUrl"]),
                                "geometry", [transformed |-> r.top["geometry"]])]

\* lines 219-243: the GET and what is made of its answer
FetchSingleRecordMetadata(r) ==
    /\ pc = "fetch_single_record_metadata"
    /\ response' = r
    /\ LET fields == RecordFields(keys, r, <<>>)
           all == IF fields.ok THEN RecordRest(r, fields.value) ELSE fields
       IN  CASE r.kind = "not_ok" -> /\ metadata' = <<>>
                                     /\ pc' = "done"
             [] r.kind = "not_json" -> /\ metadata' = [kind |-> "JSONDecodeError"]
                                       /\ pc' = "raised"
             [] OTHER -> IF all.ok
                         THEN /\ metadata' = all.value
                              /\ pc' = "done"
                         ELSE /\ metadata' = [kind |-> all.err]
                              /\ pc' = "raised"
    /\ UNCHANGED <<keys, order_item, extracted, collection, clientVars,
                   searchVars, metaVars, orderVars, downloadVars, ddsVars>>

RecordInit ==
    /\ pc = "fetch_single_record_metadata"
    /\ collection \in QueryCollections
    /\ ClientIdle
    /\ SearchIdle
    /\ MetaIdle
    /\ OrderIdle
    /\ DownloadIdle
    /\ DdsIdle
    /\ order_item = NoValue
    /\ extracted = NoValue
    /\ keys \in KeyLists
    /\ response = NoValue
    /\ metadata = NoValue

RecordNext == \E r \in DetailResponses : FetchSingleRecordMetadata(r)

SpecRecord == RecordInit /\ [][RecordNext]_vars

----------------------------------------------------------------------------
(* Claims about _fetch_single_record_metadata *)

\* C35: every requested field of a record that is returned for a parsed
\* detail response holds the top-level value of the response for that key
\* when the key is there, and otherwise the value of the first pair of the
\* metadata list whose key is the field; a top-level value wins over a pair
\* of the same key.
C35_TopLevelThenFirstPair ==
    pc = "done" /\ response.kind = "json" =>
        \A i \in DOMAIN keys :
            /\ keys[i] \in DOMAIN metadata
            /\ IF keys[i] \in DOMAIN response.top
               THEN metadata[keys[i]] = [from |-> "top", at |-> keys[i]]
               ELSE /\ Matching(response.metadata, keys[i]) # {}
                    /\ \A j \in Matching(response.metadata, keys[i]) :
                          metadata[keys[i]].at <= j
                    /\ metadata[keys[i]] =
                          response.metadata[metadata[keys[i]].at][2]

\* one field taken from the top level although the list holds it too, and
\* one taken from the first of two pairs of the list
C35_Witness ==
    /\ pc = "done"
    /\ response.kind = "json"
    /\ \E i, j \in DOMAIN keys :
          /\ keys[i] \in DOMAIN response.top
          /\ Matching(response.metadata, keys[i]) # {}
          /\ keys[j] \notin DOMAIN response.top
          /\ Cardinality(Matching(response.metadata, keys[j])) = 2


----------------------------------------------------------------------------
(* EodmsAPI.__init__ and the setter of the collection property.  The name  *)
(* passed in is a sequence of characters.                                  *)

\* assignments to the collection property the model follows
MaxAssignments == 2

\* the characters of the names in EODMS_COLLECTIONS
Text(n) ==
      CASE n = "Radarsat1" -> <<"R", "a", "d", "a", "r", "s", "a", "t", "1">>
        [] n = "Radarsat2" -> <<"R", "a", "d", "a", "r", "s", "a", "t", "2">>
        [] n = "RCMImageProducts" -> <<"R", "C", "M", "I", "m", "a", "g", "e", "P", "r", "o", "d", "u", "c", "t", "s">>
        [] n = "NAPL" -> <<"N", "A", "P", "L">>
        [] n = "PlanetScope" -> <<"P", "l", "a", "n", "e", "t", "S", "c", "o", "p", "e">>

\* str.upper()
Upper(str) == [i \in DOMAIN str |-> ToUpper(str[i])]

\* the lists in lines 64-70, with the name each stands for
ALIASES ==
    { [alias |-> <<"R", "C", "M">>, name |-> "RCMImageProducts"],
      [alias |-> <<"R", "S", "1">>, name |-> "Radarsat1"],
      [alias |-> <<"R", "A", "D", "A", "R", "S", "A", "T">>, name |-> "Radarsat1"],
      [alias |-> <<"R", "A", "D", "A", "R", "S", "A", "T", "-", "1">>, name |-> "Radarsat1"],
      [alias |-> <<"R", "S", "2">>, name |-> "Radarsat2"],
      [alias |-> <<"R", "A", "D", "A", "R", "S", "A", "T", "-", "2">>, name |-> "Radarsat2"],
      [alias |-> <<"P", "L", "A", "N", "E", "T">>, name |-> "PlanetScope"] }

\* the mutant: a name the setter does not know is stored as it is
CollectionSetterLenient(str) ==
    IF \E n \in EODMS_COLLECTIONS : Text(n) = str
    THEN [ok |-> TRUE, name |-> CHOOSE n \in EODMS_COLLECTIONS : Text(n) = str]
    ELSE IF \E a \in ALIASES : a.alias = Upper(str)
    THEN [ok |-> TRUE, name |-> (CHOOSE a \in ALIASES : a.alias = Upper(str)).name]
    ELSE [ok |-> TRUE, name |-> "as given"]

\* lines 62-77: the name the setter stores, or the ValueError it raises
CollectionSetter(str) ==
    IF \E n \in EODMS_COLLECTIONS : Text(n) = str
    THEN [ok |-> TRUE, name |-> CHOOSE n \in EODMS_COLLECTIONS : Text(n) = str]
    ELSE IF \E a \in ALIASES : a.alias = Upper(str)
    THEN [ok |-> TRUE, name |-> (CHOOSE a \in ALIASES : a.alias = Upper(str)).name]
    ELSE [ok |-> FALSE, name |-> "none"]

\* the names the model constructs and assigns with
CollectionInputs ==
    {
      <<"R", "a", "d", "a", "r", "s", "a", "t", "1">>,
      <<"R", "a", "d", "a", "r", "s", "a", "t", "2">>,
      <<"R", "C", "M", "I", "m", "a", "g", "e", "P", "r", "o", "d", "u", "c", "t", "s">>,
      <<"N", "A", "P", "L">>,
      <<"P", "l", "a", "n", "e", "t", "S", "c", "o", "p", "e">>,
      <<"r", "c", "m">>,
      <<"R", "S", "1">>,
      <<"R", "a", "d", "a", "r", "s", "a", "t">>,
      <<"r", "a", "d", "a", "r", "s", "a", "t", "-", "1">>,
      <<"r", "s", "2">>,
      <<"R", "A", "D", "A", "R", "S", "A", "T", "-", "2">>,
      <<"P", "l", "a", "n", "e", "t">>,
      <<"r", "a", "d", "a", "r", "s", "a", "t", "1">>,
      <<"n", "a", "p", "l">>,
      <<"S", "e", "n", "t", "i", "n", "e", "l", "2">>,
      <<>>,
      <<"R", "C", "M", "-">> }

\* the status of the response to the credentials test of line 52
ProbeStatuses == {200, 401, 404}

\* lines 46-54: the setter, create_session (which issues no request and may
\* raise when no credentials can be found), then the credentials test
Construct(str, session_ok, status_code) ==
    /\ pc = "new"
    /\ LET r == CollectionSetter(str) IN
       IF ~r.ok
       THEN /\ client_result' = [kind |-> "ValueError", about |-> "collection",
                                 arg |-> str]
            /\ pc' = "failed"
            /\ UNCHANGED <<collection, clientLog>>
       ELSE /\ collection' = r.name
            /\ IF ~session_ok
               THEN /\ client_result' = [kind |-> "SessionError",
                                         about |-> "credentials", arg |-> str]
                    /\ pc' = "failed"
                    /\ UNCHANGED clientLog
               ELSE /\ clientLog' = Append(clientLog,
                                      [get |-> <<"collections", r.name>>,
                                       arg |-> str])
                    /\ IF status_code = 401
                       THEN /\ client_result' = [kind |-> "ValueError",
                                                 about |-> "credentials",
                                                 arg |-> str]
                            /\ pc' = "failed"
                       ELSE /\ client_result' = [kind |-> "constructed",
                                                 about |-> "collection",
                                                 arg |-> str]
                            /\ pc' = "ready"
    /\ UNCHANGED <<n_assigned, searchVars, metaVars, orderVars, downloadVars,
                   ddsVars, helperVars>>

\* lines 60-80: an assignment to the collection property of a client
SetCollection(str) ==
    /\ pc = "ready"
    /\ n_assigned < MaxAssignments
    /\ n_assigned' = n_assigned + 1
    /\ LET r == CollectionSetter(str) IN
       IF ~r.ok
       THEN /\ client_result' = [kind |-> "ValueError", about |-> "collection",
                                 arg |-> str]
            /\ UNCHANGED collection
       ELSE /\ client_result' = [kind |-> "assigned", about |-> "collection",
                                 arg |-> str]
            /\ collection' = r.name
    /\ UNCHANGED <<pc, clientLog, searchVars, metaVars, orderVars, downloadVars,
                   ddsVars, helperVars>>

ClientInit ==
    /\ pc = "new"
    /\ collection = "unset"
    /\ ClientIdle
    /\ SearchIdle
    /\ MetaIdle
    /\ OrderIdle
    /\ DownloadIdle
    /\ DdsIdle
    /\ HelpersIdle

ClientNext ==
    \/ \E str \in CollectionInputs, session_ok \in BOOLEAN,
          status_code \in ProbeStatuses :
          Construct(str, session_ok, status_code)
    \/ \E str \in CollectionInputs : SetCollection(str)

SpecClient == ClientInit /\ [][ClientNext]_vars

----------------------------------------------------------------------------
(* Claims about the constructor and the collection property *)

\* one of the five names as written, or an alias in any letter case
AcceptedName(str) ==
    \/ \E n \in EODMS_COLLECTIONS : Text(n) = str
    \/ \E a \in ALIASES : a.alias = Upper(str)

\* C19: constructing with a name that is neither one of the five collections
\* nor an accepted alias raises the validation error with no HTTP request
\* issued; and whenever a client exists, after its construction and after
\* every assignment to its collection property, accepted or rejected, the
\* stored collection is one of the five.
C19_CollectionValidated ==
    /\ (pc # "new" /\ n_assigned = 0 /\ ~AcceptedName(client_result.arg)) =>
          /\ pc = "failed"
          /\ client_result.kind = "ValueError"
          /\ client_result.about = "collection"
          /\ clientLog = <<>>
    /\ (n_assigned > 0 /\ ~AcceptedName(client_result.arg)) =>
          client_result.kind = "ValueError"
    /\ pc = "ready" => collection \in EODMS_COLLECTIONS

\* construction with the lower-case spelling of a collection was rejected
C19_Witness ==
    /\ pc = "failed"
    /\ client_result = [kind |-> "ValueError", about |-> "collection",
                        arg |-> <<"r", "a", "d", "a", "r", "s", "a", "t", "1">>]
    /\ clientLog = <<>>

\* a client made with an alias kept its collection when an assignment was
\* rejected
C19_WitnessAssignment ==
    /\ pc = "ready"
    /\ clientLog[1].arg = <<"r", "c", "m">>
    /\ collection = "RCMImageProducts"
    /\ client_result.kind = "ValueError"

====
